---- MODULE Spec2Model ----
(***************************************************************************)
(* Model of the HTTP routing and dispatch core of Astra                    *)
(* (app/Http/router.go, app/Http/server.go, app/Http/context.go,           *)
(* app/Http/middleware.go) and of the services around it: the IoC          *)
(* container, the event dispatcher, the Redis rate limiter, the Redis      *)
(* queue with its workers and delayed pollers, and the WebSocket hub.      *)
(*                                                                         *)
(* Go strings are modelled as sequences of one-character strings, so that  *)
(* strings.Split / Trim / HasPrefix / Contains / Join are computed, not    *)
(* assumed.  A *Route pointer is the index of the route in the             *)
(* registration list Router.routes (the list is append-only); the nil      *)
(* pointer is 0.  HTTP methods are plain strings.                          *)
(***************************************************************************)
EXTENDS Integers, Sequences, FiniteSets

VARIABLES
    routes,            \* Router.routes: the registration list
    staticRoutes,      \* Router.staticRoutes: method -> pattern -> route
    dynamicRoutes,     \* Router.dynamicRoutes: method -> list of routes
    isCommitted,       \* Router.isCommitted
    lookup,            \* the last FindRoute call on the current table and what it returned
    globalMiddleware,  \* Server.globalMiddleware
    namedMiddleware,   \* Server.namedMiddleware: name -> middleware
    served,            \* the last ServeHTTP call under the current configuration and what it did
    group,             \* the RouteGroup last returned by Group or Resource, and how it was made
    response,          \* the Response of a request in progress, and the operations called on it
    conc,              \* the router's mutex and the two goroutines that contend for it
    container,         \* the IoC Container, the goroutines calling Make, and what they got
    dispatcher,        \* the event Dispatcher and the goroutines calling Emit
    limiter,           \* the Redis keys of the RateLimiter and the callers of Attempt
    queue,             \* the Redis keys of the RedisQueue, its workers and delayed pollers
    hub                \* the WebSocket Hub, its channels and its clients

routerVars == <<routes, staticRoutes, dynamicRoutes, isCommitted, lookup>>
serverVars == <<globalMiddleware, namedMiddleware, served>>
groupVars == <<group, response, conc>>
appVars == <<container, dispatcher, limiter, queue, hub>>
httpVars == <<routes, staticRoutes, dynamicRoutes, isCommitted, lookup,
              globalMiddleware, namedMiddleware, served, group, response, conc>>
vars == <<routes, staticRoutes, dynamicRoutes, isCommitted, lookup,
          globalMiddleware, namedMiddleware, served, group, response, conc,
          container, dispatcher, limiter, queue, hub>>

(***************************************************************************)
(* Bounds                                                                  *)
(***************************************************************************)
MaxRoutes == 3      \* routes registered in the route-table specification
MaxPatSegs == 2     \* segments of a generated pattern
MaxPathSegs == 3    \* segments of a generated request path
MaxGlobal == 2      \* global middleware registered with Server.Use
MaxRouteMw == 2     \* middleware names declared on the route

(***************************************************************************)
(* Strings                                                                 *)
(***************************************************************************)
Slash == <<"/">>

\* strings.HasPrefix(s, c) for a one-character prefix c
HasPrefix(s, c) == Len(s) >= 1 /\ s[1] = c

\* strings.Contains(s, c) for a one-character substring c
Contains(s, c) == \E i \in 1..Len(s) : s[i] = c

RECURSIVE TrimLeft(_, _)
TrimLeft(s, c) == IF Len(s) >= 1 /\ s[1] = c THEN TrimLeft(Tail(s), c) ELSE s

RECURSIVE TrimRight(_, _)
TrimRight(s, c) ==
    IF Len(s) >= 1 /\ s[Len(s)] = c THEN TrimRight(SubSeq(s, 1, Len(s) - 1), c) ELSE s

\* strings.Trim(s, c): all leading and trailing c removed
Trim(s, c) == TrimRight(TrimLeft(s, c), c)

RECURSIVE SplitFrom(_, _, _, _)
SplitFrom(s, c, cur, acc) ==
    IF s = <<>> THEN Append(acc, cur)
    ELSE IF s[1] = c THEN SplitFrom(Tail(s), c, <<>>, Append(acc, cur))
    ELSE SplitFrom(Tail(s), c, Append(cur, s[1]), acc)

\* strings.Split(s, c): the substrings between the separators c; Split("", c) = [""]
Split(s, c) == SplitFrom(s, c, <<>>, <<>>)

RECURSIVE Join(_, _)
\* strings.Join(parts, c)
Join(parts, c) ==
    IF parts = <<>> THEN <<>>
    ELSE IF Len(parts) = 1 THEN parts[1]
    ELSE parts[1] \o <<c>> \o Join(Tail(parts), c)

\* A Go map as a function; m[k] = v on a map
MapPut(m, k, v) == [x \in (DOMAIN m) \cup {k} |-> IF x = k THEN v ELSE m[x]]

EmptyMap == <<>>

Min(S) == CHOOSE x \in S : \A y \in S : x <= y
Max(S) == CHOOSE x \in S : \A y \in S : x >= y

(***************************************************************************)
(* Route                                                                   *)
(***************************************************************************)
\* NewRoute: name and middleware start empty
NewRoute(methods, pattern, handler) ==
    [pattern |-> pattern, methods |-> methods, handler |-> handler,
     name |-> <<>>, middleware |-> <<>>]

RECURSIVE MatchShifted(_, _, _, _)
\* Route.match's loop binding a parameter to the neighbouring path segment
MatchShifted(patternParts, pathParts, i, params) ==
    IF i > Len(patternParts) THEN [ok |-> TRUE, params |-> params]
    ELSE LET part == patternParts[i] IN
         IF HasPrefix(part, ":")
         THEN MatchShifted(patternParts, pathParts, i + 1,
                           MapPut(params, Tail(part), pathParts[IF i > 1 THEN i - 1 ELSE i]))
         ELSE IF HasPrefix(part, "*")
         THEN [ok |-> TRUE,
               params |-> MapPut(params, Tail(part),
                                 Join(SubSeq(pathParts, i, Len(pathParts)), "/"))]
         ELSE IF part # pathParts[i] THEN [ok |-> FALSE, params |-> EmptyMap]
         ELSE MatchShifted(patternParts, pathParts, i + 1, params)

RECURSIVE MatchLoop(_, _, _, _)
\* the loop of Route.match over the pattern's segments, from segment i on
MatchLoop(patternParts, pathParts, i, params) ==
    IF i > Len(patternParts) THEN [ok |-> TRUE, params |-> params]
    ELSE LET part == patternParts[i] IN
         IF HasPrefix(part, ":")
         THEN MatchLoop(patternParts, pathParts, i + 1,
                        MapPut(params, Tail(part), pathParts[i]))
         ELSE IF HasPrefix(part, "*")
         THEN [ok |-> TRUE,
               params |-> MapPut(params, Tail(part),
                                 Join(SubSeq(pathParts, i, Len(pathParts)), "/"))]
         ELSE IF part # pathParts[i] THEN [ok |-> FALSE, params |-> EmptyMap]
         ELSE MatchLoop(patternParts, pathParts, i + 1, params)

\* Route.match(path): (params, ok)
Match(pattern, path) ==
    LET patternParts == Split(Trim(pattern, "/"), "/")
        pathParts == Split(Trim(path, "/"), "/")
    IN  IF Len(patternParts) # Len(pathParts)
        THEN [ok |-> FALSE, params |-> EmptyMap]
        ELSE MatchLoop(patternParts, pathParts, 1, EmptyMap)

(***************************************************************************)
(* Router                                                                  *)
(***************************************************************************)
NotFound == [found |-> FALSE, route |-> 0, params |-> EmptyMap]

\* no FindRoute call since the table last changed
NoLookup == [called |-> FALSE, method |-> "", path |-> <<>>, result |-> NotFound]

Found(route, params) == [found |-> TRUE, route |-> route, params |-> params]

\* the methods of a route as a set
MethodSet(r) == {r.methods[i] : i \in 1..Len(r.methods)}

RECURSIVE ScanRoutesAnyMethod(_, _, _, _)
\* the fallback scan without its method test
ScanRoutesAnyMethod(rs, i, method, path) ==
    IF i > Len(rs) THEN NotFound
    ELSE LET m == Match(rs[i].pattern, path) IN
         IF m.ok THEN Found(i, m.params) ELSE ScanRoutesAnyMethod(rs, i + 1, method, path)

RECURSIVE ScanRoutesLast(_, _, _, _)
\* the fallback scan that lets the last matching route win
ScanRoutesLast(rs, i, method, path) ==
    IF i > Len(rs) THEN NotFound
    ELSE LET rest == ScanRoutesLast(rs, i + 1, method, path)
             m == Match(rs[i].pattern, path)
         IN  IF rest.found THEN rest
             ELSE IF method \in MethodSet(rs[i]) /\ m.ok THEN Found(i, m.params) ELSE NotFound

RECURSIVE ScanRoutes(_, _, _, _)
\* step 3 of FindRoute: the fallback scan of the registration list, from index i
ScanRoutes(rs, i, method, path) ==
    IF i > Len(rs) THEN NotFound
    ELSE IF method \notin MethodSet(rs[i]) THEN ScanRoutes(rs, i + 1, method, path)
    ELSE LET m == Match(rs[i].pattern, path) IN
         IF m.ok THEN Found(i, m.params) ELSE ScanRoutes(rs, i + 1, method, path)

RECURSIVE ScanDynamicLast(_, _, _, _)
\* the scan of a dynamic list that lets the last matching route win
ScanDynamicLast(rs, list, i, path) ==
    IF i > Len(list) THEN NotFound
    ELSE LET rest == ScanDynamicLast(rs, list, i + 1, path)
             m == Match(rs[list[i]].pattern, path)
         IN  IF rest.found THEN rest
             ELSE IF m.ok THEN Found(list[i], m.params) ELSE NotFound

RECURSIVE ScanDynamic(_, _, _, _)
\* step 2 of FindRoute: the ordered scan of dynamicRoutes[method], from position i
ScanDynamic(rs, list, i, path) ==
    IF i > Len(list) THEN NotFound
    ELSE LET m == Match(rs[list[i]].pattern, path) IN
         IF m.ok THEN Found(list[i], m.params) ELSE ScanDynamic(rs, list, i + 1, path)

\* Router.FindRoute(method, path) on a table (routes, staticRoutes, dynamicRoutes, isCommitted)
FindRouteOp(rs, static, dynamic, committed, method, path) ==
    IF method \in DOMAIN static /\ path \in DOMAIN static[method]
    THEN Found(static[method][path], EmptyMap)
    ELSE LET d == IF method \in DOMAIN dynamic
                  THEN ScanDynamic(rs, dynamic[method], 1, path)
                  ELSE NotFound
         IN  IF d.found THEN d
             ELSE IF ~committed THEN ScanRoutes(rs, 1, method, path)
             ELSE NotFound

\* Commit's test for a dynamic pattern
IsDynamic(pattern) == Contains(pattern, ":") \/ Contains(pattern, "*")

\* Commit's insertion that keeps the first route registered for a method and pattern
CompileMethodFirstWins(c, i, pattern, method) ==
    IF IsDynamic(pattern)
    THEN [c EXCEPT !.dynamic =
            MapPut(c.dynamic, method,
                   Append(IF method \in DOMAIN c.dynamic THEN c.dynamic[method] ELSE <<>>, i))]
    ELSE IF method \in DOMAIN c.static /\ pattern \in DOMAIN c.static[method] THEN c
    ELSE [c EXCEPT !.static =
            MapPut(c.static, method,
                   MapPut(IF method \in DOMAIN c.static THEN c.static[method] ELSE EmptyMap,
                          pattern, i))]

\* Commit's insertion that also indexes a dynamic route by its pattern
CompileMethodBoth(c, i, pattern, method) ==
    [static |-> MapPut(c.static, method,
                       MapPut(IF method \in DOMAIN c.static THEN c.static[method] ELSE EmptyMap,
                              pattern, i)),
     dynamic |-> IF IsDynamic(pattern)
                 THEN MapPut(c.dynamic, method,
                             Append(IF method \in DOMAIN c.dynamic THEN c.dynamic[method] ELSE <<>>, i))
                 ELSE c.dynamic]

\* the body of Commit's inner loop: route i under one of its methods
CompileMethod(c, i, pattern, method) ==
    IF IsDynamic(pattern)
    THEN [c EXCEPT !.dynamic =
            MapPut(c.dynamic, method,
                   Append(IF method \in DOMAIN c.dynamic THEN c.dynamic[method] ELSE <<>>, i))]
    ELSE [c EXCEPT !.static =
            MapPut(c.static, method,
                   MapPut(IF method \in DOMAIN c.static THEN c.static[method] ELSE EmptyMap,
                          pattern, i))]

RECURSIVE CompileMethods(_, _, _, _)
\* Commit's inner loop over route.methods, from method k
CompileMethods(c, rs, i, k) ==
    IF k > Len(rs[i].methods) THEN c
    ELSE CompileMethods(CompileMethod(c, i, rs[i].pattern, rs[i].methods[k]), rs, i, k + 1)

RECURSIVE CompileRoutes(_, _, _)
\* Commit's outer loop over router.routes, from route i
CompileRoutes(c, rs, i) ==
    IF i > Len(rs) THEN c
    ELSE CompileRoutes(CompileMethods(c, rs, i, 1), rs, i + 1)

\* the compiled structures Commit builds from the registration list
CommitOp(rs) == CompileRoutes([static |-> EmptyMap, dynamic |-> EmptyMap], rs, 1)

(***************************************************************************)
(* Inputs of the route-table specifications                                *)
(***************************************************************************)
LitA == <<"a">>
LitB == <<"b">>
LitColon == <<"a", ":">>      \* a literal segment that holds a colon
ParI == <<":", "i">>
ParJ == <<":", "j">>
WildW == <<"*", "w">>
Empty == <<>>

\* "/" followed by the segments joined with "/"
PathOf(segs) == Slash \o Join(segs, "/")

SeqsUpTo(S, n) == UNION {[1..k -> S] : k \in 1..n}

GetMethods == <<"GET">>
AnyMethods == <<"GET", "POST", "PUT", "PATCH", "DELETE", "HEAD", "OPTIONS">>

\* the route table: patterns registered and paths looked up
RouterPatterns == {PathOf(<<LitA>>), PathOf(<<ParI>>), PathOf(<<WildW>>), PathOf(<<LitColon>>)}
RouterPaths == {PathOf(<<LitA>>), PathOf(<<LitB>>), PathOf(<<LitColon>>), PathOf(<<LitA, LitB>>)}
RouterMethods == {"GET", "POST"}

\* matching: every pattern and path of a few segments
MatchPatterns == {PathOf(s) : s \in SeqsUpTo({LitA, LitB, ParI, ParJ, WildW}, MaxPatSegs)}
MatchPaths == {PathOf(s) : s \in SeqsUpTo({LitA, LitB, Empty}, MaxPathSegs)}

(***************************************************************************)
(* Resource and route groups (router.go)                                   *)
(*                                                                         *)
(* A RouteGroup holds pointers to routes that are also in the table, so    *)
(* its routes are indices into the registration list.  A callback passed   *)
(* to Group is the sequence of registrations it makes on the sub-router.   *)
(***************************************************************************)
MaxRegistered == 8   \* routes in the table of the registration specification
MaxGroupCalls == 2   \* calls chained on a returned RouteGroup
MaxGroups == 1       \* calls of Group and Resource on the table

DotIndex == <<".", "i", "n", "d", "e", "x">>
DotStore == <<".", "s", "t", "o", "r", "e">>
DotShow == <<".", "s", "h", "o", "w">>
DotUpdate == <<".", "u", "p", "d", "a", "t", "e">>
DotDestroy == <<".", "d", "e", "s", "t", "r", "o", "y">>
ColonId == <<"/", ":", "i", "d">>

\* a contracts.ResourceController: its five actions
Controller(c) ==
    [Index |-> <<c, "Index">>, Store |-> <<c, "Store">>, Show |-> <<c, "Show">>,
     Update |-> <<c, "Update">>, Destroy |-> <<c, "Destroy">>]

\* addRoute followed by the assignment of the route's name, as Resource does five times
AddNamed(rs, methods, pattern, handler, name) ==
    Append(rs, [NewRoute(methods, pattern, handler) EXCEPT !.name = name])

\* Resource that leaves out the PATCH method of the update route
ResourceNoPatch(rs, name, controller) ==
    LET basePath == Slash \o Trim(name, "/")
        paramPath == basePath \o ColonId
        r1 == AddNamed(rs, <<"GET">>, basePath, controller.Index, name \o DotIndex)
        r2 == AddNamed(r1, <<"POST">>, basePath, controller.Store, name \o DotStore)
        r3 == AddNamed(r2, <<"GET">>, paramPath, controller.Show, name \o DotShow)
        r4 == AddNamed(r3, <<"PUT">>, paramPath, controller.Update, name \o DotUpdate)
        r5 == AddNamed(r4, <<"DELETE">>, paramPath, controller.Destroy, name \o DotDestroy)
    IN  [routes |-> r5, group |-> [j \in 1..5 |-> Len(rs) + j]]

\* Router.Resource(name, controller): the table after it and the routes of the group returned
ResourceOp(rs, name, controller) ==
    LET basePath == Slash \o Trim(name, "/")
        paramPath == basePath \o ColonId
        r1 == AddNamed(rs, <<"GET">>, basePath, controller.Index, name \o DotIndex)
        r2 == AddNamed(r1, <<"POST">>, basePath, controller.Store, name \o DotStore)
        r3 == AddNamed(r2, <<"GET">>, paramPath, controller.Show, name \o DotShow)
        r4 == AddNamed(r3, <<"PUT", "PATCH">>, paramPath, controller.Update, name \o DotUpdate)
        r5 == AddNamed(r4, <<"DELETE">>, paramPath, controller.Destroy, name \o DotDestroy)
    IN  [routes |-> r5, group |-> [j \in 1..5 |-> Len(rs) + j]]

\* the indices a group holds
GroupSet(idx) == {idx[j] : j \in 1..Len(idx)}

\* RouteGroup.Prefix(prefix): every route of the group gets prefix + pattern
PrefixOp(rs, idx, prefix) ==
    [k \in 1..Len(rs) |->
        IF k \in GroupSet(idx) THEN [rs[k] EXCEPT !.pattern = prefix \o @] ELSE rs[k]]

\* RouteGroup.Middleware that puts the names after the route's own
MiddlewareAfter(rs, idx, names) ==
    [k \in 1..Len(rs) |->
        IF k \in GroupSet(idx) THEN [rs[k] EXCEPT !.middleware = @ \o names] ELSE rs[k]]

\* RouteGroup.Middleware(names...): every route of the group gets names + its middleware
MiddlewareOp(rs, idx, names) ==
    [k \in 1..Len(rs) |->
        IF k \in GroupSet(idx) THEN [rs[k] EXCEPT !.middleware = names \o @] ELSE rs[k]]

RECURSIVE RunCallback(_, _, _)

\* Router.Group(callback): the callback run on a new sub-router, its routes appended
GroupOp(rs, callback) ==
    LET sub == RunCallback(callback, 1, <<>>) IN
    [routes |-> rs \o sub, group |-> [j \in 1..Len(sub) |-> Len(rs) + j]]

\* one registration made by a callback on its router: Get(...).Middleware(...),
\* Resource(...), or Group(...).Prefix(...).Middleware(...)
RunCommand(c, rs) ==
    CASE c.op = "Get" ->
            Append(rs, [NewRoute(GetMethods, c.pattern, c.handler) EXCEPT !.middleware = c.middleware])
      [] c.op = "Resource" -> ResourceOp(rs, c.name, c.controller).routes
      [] c.op = "Group" ->
            LET g == GroupOp(rs, c.callback) IN
            MiddlewareOp(PrefixOp(g.routes, g.group, c.prefix), g.group, c.middleware)

\* the registrations of a callback made in order, from the i-th on
RunCallback(callback, i, rs) ==
    IF i > Len(callback) THEN rs
    ELSE RunCallback(callback, i + 1, RunCommand(callback[i], rs))

\* no RouteGroup returned yet
NoGroup ==
    [routes |-> <<>>, prefix_ |-> <<>>, middleware |-> <<>>,
     made |-> [op |-> "none", serial |-> 0, name |-> <<>>, controller |-> Controller("none"),
               callback |-> <<>>],
     calls |-> <<>>]

(***************************************************************************)
(* Response and request context (context.go)                               *)
(*                                                                         *)
(* The context of a request is its response (statusCode, committed, and    *)
(* the calls of WriteHeader made on the underlying writer, each with the   *)
(* body sent after it and the code that made it) and, to observe the       *)
(* order of execution, the list of the middleware and handler entered.     *)
(***************************************************************************)
\* NewHttpContext / NewResponse: status 200, nothing written
NewHttpContext ==
    [statusCode |-> 200, committed |-> FALSE, writes |-> <<>>, ran |-> <<>>]

\* Response.Status that also clears the committed flag
StatusReopens(ctx, code) == [ctx EXCEPT !.statusCode = code, !.committed = FALSE]

\* Response.Status(code)
Status(ctx, code) == [ctx EXCEPT !.statusCode = code]

\* Response.Json that forgets to mark the response committed
JsonNoCommit(ctx, data, by) ==
    [ctx EXCEPT !.writes = Append(@, [code |-> ctx.statusCode, body |-> data, by |-> by])]

\* Response.Json(data): WriteHeader(statusCode), committed = true, the body encoded
Json(ctx, data, by) ==
    [ctx EXCEPT !.writes = Append(@, [code |-> ctx.statusCode, body |-> data, by |-> by]),
                !.committed = TRUE]

\* Response.Created(data)
Created(ctx, data, by) == Json([ctx EXCEPT !.statusCode = 201], data, by)

\* Response.IsCommitted()
IsCommitted(ctx) == ctx.committed

\* the structured body of the not-found and error responses
ErrorBody(error, message, status) == [error |-> error, message |-> message, status |-> status]

\* Response.Send(data): WriteHeader(statusCode), committed = true, the text written
Send(ctx, data, by) ==
    [ctx EXCEPT !.writes = Append(@, [code |-> ctx.statusCode, body |-> data, by |-> by]),
                !.committed = TRUE]

\* Response.SendBytes(data): WriteHeader(statusCode), committed = true, the bytes written
SendBytes(ctx, data, by) ==
    [ctx EXCEPT !.writes = Append(@, [code |-> ctx.statusCode, body |-> data, by |-> by]),
                !.committed = TRUE]

\* Response.Header(key, value): sets a header of the writer and nothing of the response
Header(ctx, key, value) == ctx

\* Response.RedirectStatus that forgets to mark the response committed
RedirectStatusNoCommit(ctx, url, code, by) ==
    [ctx EXCEPT !.writes = Append(@, [code |-> code, body |-> [location |-> url], by |-> by])]

\* Response.RedirectStatus(url, code): Location set, WriteHeader(code), committed = true
RedirectStatus(ctx, url, code, by) ==
    [ctx EXCEPT !.writes = Append(@, [code |-> code, body |-> [location |-> url], by |-> by]),
                !.committed = TRUE]

\* Response.Redirect(url): RedirectStatus(url, http.StatusFound)
Redirect(ctx, url, by) == RedirectStatus(ctx, url, 302, by)

\* Response.Abort(code, message): statusCode = code, then Json of the structured body
Abort(ctx, code, message, by) ==
    Json([ctx EXCEPT !.statusCode = code], ErrorBody(<<"StatusText", code>>, message, code), by)

\* Response.NoContent(): WriteHeader(204), committed = true
NoContent(ctx, by) ==
    [ctx EXCEPT !.writes = Append(@, [code |-> 204, body |-> [none |-> TRUE], by |-> by]),
                !.committed = TRUE]

(***************************************************************************)
(* Handlers and middleware                                                 *)
(*                                                                         *)
(* A call returns the context it leaves and its result: nil, an error      *)
(* with its message, or a panic that unwinds the caller.                   *)
(***************************************************************************)
Nil == [outcome |-> "nil", msg |-> ""]
Error(msg) == [outcome |-> "error", msg |-> msg]
Panic == [outcome |-> "panic", msg |-> ""]

Entered(ctx, unit, id) == [ctx EXCEPT !.ran = Append(@, [unit |-> unit, id |-> id])]

\* the handlers an application may register (contracts.HandlerFunc)
Handlers == {"ok", "created_then_fail", "fail", "silent", "panic", "write_then_panic"}

\* a handler of each kind run on the context
HandlerCall(h, ctx0) ==
    LET ctx == Entered(ctx0, "handler", h) IN
    CASE h = "ok" -> [ctx |-> Json(ctx, [data |-> "ok"], "handler"), result |-> Nil]
      [] h = "created_then_fail" ->
            [ctx |-> Created(ctx, [data |-> "created"], "handler"), result |-> Error("handler failed")]
      [] h = "fail" -> [ctx |-> ctx, result |-> Error("handler failed")]
      [] h = "silent" -> [ctx |-> ctx, result |-> Nil]
      [] h = "panic" -> [ctx |-> ctx, result |-> Panic]
      [] h = "write_then_panic" -> [ctx |-> Json(ctx, [data |-> "ok"], "handler"), result |-> Panic]

\* the middleware an application may register (contracts.MiddlewareFunc)
GlobalChoices == {"secure", "recovery", "deny"}
NamedChoices == {<<"auth", "auth">>, <<"headers", "secure">>}
RouteMwNames == {"auth", "headers", "missing"}

RECURSIVE Call(_, _, _)

\* SecureHeadersMiddleware: sets headers, then return next()
SecureHeadersMiddleware(ctx, next, authed) == Call(next, ctx, authed)

\* AuthMiddleware: a 401 body when the guard does not authenticate, else return next()
AuthMiddleware(ctx, next, authed) ==
    IF ~authed
    THEN [ctx |-> Json(Status(ctx, 401),
                       ErrorBody("Unauthorized", "Authentication required", 401), "middleware"),
          result |-> Nil]
    ELSE Call(next, ctx, authed)

\* a middleware that returns an error without calling next
DenyMiddleware(ctx, next, authed) == [ctx |-> ctx, result |-> Error("denied")]

\* RecoveryMiddleware: return next(); a deferred recover() writes a 500 body
RecoveryMiddleware(ctx, next, authed) ==
    LET r == Call(next, ctx, authed) IN
    IF r.result.outcome = "panic"
    THEN [ctx |-> Json(Status(r.ctx, 500),
                       ErrorBody("Internal Server Error", "An unexpected error occurred", 500),
                       "recovery"),
          result |-> Nil]
    ELSE r

\* calling a continuation built by buildMiddlewareChain
Call(c, ctx, authed) ==
    IF c.kind = "handler" THEN HandlerCall(c.handler, ctx)
    ELSE LET ctx1 == Entered(ctx, "middleware", c.mw) IN
         CASE c.mw = "secure" -> SecureHeadersMiddleware(ctx1, c.next, authed)
           [] c.mw = "auth" -> AuthMiddleware(ctx1, c.next, authed)
           [] c.mw = "deny" -> DenyMiddleware(ctx1, c.next, authed)
           [] c.mw = "recovery" -> RecoveryMiddleware(ctx1, c.next, authed)

(***************************************************************************)
(* Server (server.go)                                                      *)
(***************************************************************************)
RECURSIVE WrapForward(_, _, _)
\* the wrapping loop run from the first middleware to the last
WrapForward(middleware, i, current) ==
    IF i > Len(middleware) THEN current
    ELSE WrapForward(middleware, i + 1, [kind |-> "middleware", mw |-> middleware[i], next |-> current])

RECURSIVE Wrap(_, _, _)
\* the loop of buildMiddlewareChain: wrap middleware[i], then those before it
Wrap(middleware, i, current) ==
    IF i < 1 THEN current
    ELSE Wrap(middleware, i - 1, [kind |-> "middleware", mw |-> middleware[i], next |-> current])

\* buildMiddlewareChain with its loop running forward
buildMiddlewareChainForward(middleware, handler) ==
    WrapForward(middleware, 1, [kind |-> "handler", handler |-> handler])

\* buildMiddlewareChain(ctx, middleware, handler): the outermost continuation
buildMiddlewareChain(middleware, handler) ==
    Wrap(middleware, Len(middleware), [kind |-> "handler", handler |-> handler])

RECURSIVE CollectNamedStops(_, _, _)
\* the loop over the route's names that gives up at the first name not registered
CollectNamedStops(names, i, registry) ==
    IF i > Len(names) \/ names[i] \notin DOMAIN registry THEN <<>>
    ELSE <<registry[names[i]]>> \o CollectNamedStops(names, i + 1, registry)

RECURSIVE CollectNamed(_, _, _)
\* the loop of ServeHTTP over route.GetMiddleware(): names not registered are skipped
CollectNamed(names, i, registry) ==
    IF i > Len(names) THEN <<>>
    ELSE (IF names[i] \in DOMAIN registry THEN <<registry[names[i]]>> ELSE <<>>)
         \o CollectNamed(names, i + 1, registry)

\* ServeHTTP when FindRoute reports no route
NotFoundResponse(ctx, method, path) ==
    Json(Status(ctx, 404), ErrorBody("Not Found", <<"Cannot", method, path>>, 404), "dispatcher")

\* the error branch that writes whether or not the response is committed
ChainFailedAlwaysWrites(ctx, msg) ==
    [ctx |-> Json(Status(ctx, 500), ErrorBody("Internal Server Error", msg, 500), "dispatcher"),
     logged |-> <<msg>>]

\* the error branch that only logs
ChainFailedOnlyLogs(ctx, msg) == [ctx |-> ctx, logged |-> <<msg>>]

\* ServeHTTP when chain() returns an error: a 500 body unless committed, and a log line
ChainFailed(ctx, msg) ==
    [ctx |-> IF ~IsCommitted(ctx)
             THEN Json(Status(ctx, 500), ErrorBody("Internal Server Error", msg, 500), "dispatcher")
             ELSE ctx,
     logged |-> <<msg>>]

\* ServeHTTP from ctx.SetParams on: the chain built and run, its failure handled
Dispatch(rs, route, globals, registry, req) ==
    LET routeMw == CollectNamed(rs[route].middleware, 1, registry)
        allMiddleware == globals \o routeMw
        chain == buildMiddlewareChain(allMiddleware, rs[route].handler)
        out == Call(chain, NewHttpContext, req.authed)
    IN  IF out.result.outcome = "error"
        THEN LET f == ChainFailed(out.ctx, out.result.msg) IN
             [request |-> req, route |-> route, result |-> out.result,
              logged |-> f.logged, ctx |-> f.ctx]
        ELSE [request |-> req, route |-> route, result |-> out.result,
              logged |-> <<>>, ctx |-> out.ctx]

\* ServeHTTP when the route is not found: the 404 body, then return
Unresolved(req, ctx) ==
    [request |-> req, route |-> 0, result |-> Nil, logged |-> <<>>,
     ctx |-> NotFoundResponse(ctx, req.method, req.path)]

\* ServeHTTP entering the global middleware before the route is resolved
ServeHTTPGlobalsFirst(rs, static, dynamic, committed, globals, registry, method, path, authed) ==
    LET r == FindRouteOp(rs, static, dynamic, committed, method, path)
        req == [called |-> TRUE, method |-> method, path |-> path, authed |-> authed]
        entered == [NewHttpContext EXCEPT
                      !.ran = [i \in 1..Len(globals) |-> [unit |-> "middleware", id |-> globals[i]]]]
    IN  IF ~r.found THEN Unresolved(req, entered)
        ELSE Dispatch(rs, r.route, globals, registry, req)

\* Server.ServeHTTP for one request, on a route table and a middleware configuration
ServeHTTPOp(rs, static, dynamic, committed, globals, registry, method, path, authed) ==
    LET r == FindRouteOp(rs, static, dynamic, committed, method, path)
        req == [called |-> TRUE, method |-> method, path |-> path, authed |-> authed]
    IN  IF ~r.found THEN Unresolved(req, NewHttpContext)
        ELSE Dispatch(rs, r.route, globals, registry, req)

\* no ServeHTTP call since the configuration last changed
NoRequest ==
    [request |-> [called |-> FALSE, method |-> "", path |-> <<>>, authed |-> FALSE],
     route |-> 0, result |-> Nil, logged |-> <<>>, ctx |-> NewHttpContext]

ServerPattern == PathOf(<<LitA>>)
ServerPaths == {PathOf(<<LitA>>), PathOf(<<LitB>>)}

\* the mutex free, both goroutines between operations
ConcIdle ==
    [mu |-> [writer |-> FALSE, readers |-> 0],
     registrar |-> [pc |-> "idle", i |-> 0, arg |-> <<>>],
     reader |-> [pc |-> "idle"]]

(***************************************************************************)
(* Route-table operations                                                  *)
(***************************************************************************)
\* Router.addRoute: append a new route to the registration list
addRoute(methods, pattern, handler) ==
    /\ Len(routes) < MaxRoutes
    /\ routes' = Append(routes, NewRoute(methods, pattern, handler))
    /\ lookup' = NoLookup
    /\ served' = NoRequest
    /\ UNCHANGED <<staticRoutes, dynamicRoutes, isCommitted, globalMiddleware, namedMiddleware, groupVars, appVars>>

\* Router.Get(pattern, handler)
Get == \E p \in RouterPatterns : addRoute(GetMethods, p, "h")

\* Router.Any(pattern, handler)
Any == \E p \in RouterPatterns : addRoute(AnyMethods, p, "h")

\* Router.Commit()
Commit ==
    /\ LET c == CommitOp(routes) IN
         /\ staticRoutes' = c.static
         /\ dynamicRoutes' = c.dynamic
    /\ isCommitted' = TRUE
    /\ lookup' = NoLookup
    /\ served' = NoRequest
    /\ UNCHANGED <<routes, globalMiddleware, namedMiddleware, groupVars, appVars>>

\* Router.FindRoute(method, path), its arguments and result recorded in lookup
FindRouteCall(method, path) ==
    /\ lookup' = [called |-> TRUE, method |-> method, path |-> path,
                  result |-> FindRouteOp(routes, staticRoutes, dynamicRoutes,
                                         isCommitted, method, path)]
    /\ UNCHANGED <<routes, staticRoutes, dynamicRoutes, isCommitted, serverVars, groupVars, appVars>>

FindRoute == \E m \in RouterMethods, p \in RouterPaths : FindRouteCall(m, p)

FindRouteMatch == \E p \in MatchPaths : FindRouteCall("GET", p)

(***************************************************************************)
(* The other services of the application, as constructed                   *)
(***************************************************************************)
\* the goroutines that call Container.Make
MakeCallers == {1, 2}

\* a goroutine that is in no call of Make and has made none
NoMake ==
    [pc |-> "idle", namespace |-> "", resolved |-> "", kind |-> "", factory |-> "",
     instance |-> [by |-> "", n |-> 0], result |-> [ok |-> FALSE, value |-> [by |-> "", n |-> 0]],
     at |-> [phase |-> "none", tid |-> 0]]

\* the five maps of a Container
ContainerMaps(bindings, singletons, instances, aliases, fakes) ==
    [bindings |-> bindings, singletons |-> singletons, instances |-> instances,
     aliases |-> aliases, fakes |-> fakes]

\* no Fake call is being followed
NoTrip ==
    [phase |-> "none", tid |-> 0, namespace |-> "", fake |-> "",
     before |-> ContainerMaps(EmptyMap, EmptyMap, EmptyMap, EmptyMap, EmptyMap)]

\* NewContainer(): five empty maps; no goroutine has called Make
NewContainer ==
    [bindings |-> EmptyMap, singletons |-> EmptyMap, instances |-> EmptyMap,
     aliases |-> EmptyMap, fakes |-> EmptyMap,
     invoked |-> EmptyMap,     \* namespace -> calls of its singleton factory since registered
     serial |-> 0,             \* factory calls so far: the identity of the next instance
     setup |-> 0,              \* registration calls so far
     makes |-> 0,              \* Make calls so far
     crashed |-> FALSE,        \* the process died of a stack overflow
     has |-> [called |-> FALSE, namespace |-> "", result |-> FALSE],  \* the last HasBinding
     g |-> [i \in MakeCallers |-> NoMake],
     trip |-> NoTrip]          \* the last Fake on a namespace without one, and its Restore
\* the goroutines that call Dispatcher.Emit
Emitters == {1, 2}

\* a goroutine that is in no call of Emit
NoEmit == [pc |-> "idle", event |-> "", listeners |-> <<>>, onces |-> <<>>, result |-> "nil"]

\* NewDispatcher(): three empty maps; no listener was ever called
NewDispatcher ==
    [listeners |-> EmptyMap, onces |-> EmptyMap, traps |-> EmptyMap,
     registered |-> 0,         \* calls of On, Once and Trap so far: the listener's identity
     emits |-> 0,              \* calls of Emit so far
     called |-> <<>>,          \* how often each listener was called, by identity
     kinds |-> <<>>,           \* how each listener was registered, by identity
     e |-> [i \in Emitters |-> NoEmit]]
\* the goroutines (or processes) that call RateLimiter.Attempt for one key
AttemptCallers == {1, 2}

\* a caller that is in no call of Attempt
NoAttempt == [pc |-> "idle", count |-> 0, allowed |-> FALSE, err |-> FALSE]

\* the key of the limiter absent from Redis, no Attempt made
NewLimiter ==
    [key |-> [exists |-> FALSE, count |-> 0, expires |-> FALSE],
     attempts |-> 0,           \* calls of Attempt so far
     allowed |-> 0,            \* calls allowed since the counter was created
     a |-> [i \in AttemptCallers |-> NoAttempt]]
\* the calls of RedisQueue.Process: each is a worker loop with its delayed poller
Workers == {1, 2}

NoPayload == [job |-> 0, attempts |-> 0, max |-> 0]

\* NewRedisQueue(r, registry) on an empty Redis: no key exists, no Process has popped
NewQueue ==
    [poller |-> "pipeline",    \* which pollDelayedJobs the build holds
     list |-> <<>>,            \* the list at prefix + "default", head first
     delayed |-> {},           \* the sorted set at prefix + "delayed": member and score
     failed |-> <<>>,          \* the list at prefix + "failed", head first
     now |-> 0,                \* time.Now().Unix()
     pushed |-> 0,             \* jobs given to Push and Later so far
     failures |-> 0,           \* Redis commands that failed so far
     runs |-> <<>>,            \* by job: calls of its handler
     succeeded |-> <<>>,       \* by job: a call of its handler returned nil
     moves |-> <<>>,           \* the members the pollers pushed on the list, in order
     removed |-> {},           \* the members the pollers removed from the delayed set
     w |-> [i \in Workers |-> [pc |-> "pop", payload |-> NoPayload]],
     p |-> [i \in Workers |-> [pc |-> "tick", jobs |-> <<>>]]]
\* the connections handled by Hub.Handle
WsClients == {1, 2}

\* NewClient(id, hub, conn) before Handle sends it to the hub: in no room, sendCh open
NewClient == [pc |-> "new", rooms |-> {}, room |-> "", sendClosed |-> FALSE]

\* NewHub() with Start running: no client, no room, the mutex free, the loop at its select
NewHub ==
    [clients |-> {}, rooms |-> EmptyMap,
     mu |-> "free",            \* who holds h.mu for writing
     loop |-> [pc |-> "select", client |-> 0, todo |-> {}],
     c |-> [id \in WsClients |-> NewClient],
     joins |-> 0,              \* calls of Client.Join and Client.Leave so far
     broadcasts |-> 0]         \* calls of Hub.Broadcast so far

AppIdle ==
    /\ container = NewContainer
    /\ dispatcher = NewDispatcher
    /\ limiter = NewLimiter
    /\ queue = NewQueue
    /\ hub = NewHub

ServerIdle ==
    /\ globalMiddleware = <<>>
    /\ namedMiddleware = EmptyMap
    /\ served = NoRequest

\* NewRouter()
RouterInit ==
    /\ routes = <<>>
    /\ staticRoutes = EmptyMap
    /\ dynamicRoutes = EmptyMap
    /\ isCommitted = FALSE
    /\ lookup = NoLookup

\* no RouteGroup returned, no request in progress, the mutex free
GroupIdle ==
    /\ group = NoGroup
    /\ response = NewHttpContext
    /\ conc = ConcIdle
    /\ AppIdle

InitRouter == RouterInit /\ ServerIdle /\ GroupIdle

NextRouter == Get \/ Any \/ Commit \/ FindRoute

NextCompile == Get \/ Any \/ Commit

\* registration and Commit in any order, no lookup made
SpecCompile == InitRouter /\ [][NextCompile]_vars

\* the route table: registration, Commit and FindRoute in any order
SpecRouter == InitRouter /\ [][NextRouter]_vars

\* a table holding one GET route, as after a single Router.Get
InitMatch ==
    /\ routes \in {<<NewRoute(GetMethods, p, "h")>> : p \in MatchPatterns}
    /\ staticRoutes = EmptyMap
    /\ dynamicRoutes = EmptyMap
    /\ isCommitted = FALSE
    /\ lookup = NoLookup
    /\ ServerIdle
    /\ GroupIdle

NextMatch == Commit \/ FindRouteMatch

\* matching one route against every path, before and after Commit
SpecMatch == InitMatch /\ [][NextMatch]_vars

(***************************************************************************)
(* Server operations                                                       *)
(***************************************************************************)
\* Route.Middleware(name) on the registered route
RouteMiddleware ==
    \E name \in RouteMwNames :
        /\ Len(routes[1].middleware) < MaxRouteMw
        /\ routes' = [routes EXCEPT ![1].middleware = Append(@, name)]
        /\ lookup' = NoLookup
        /\ served' = NoRequest
        /\ UNCHANGED <<staticRoutes, dynamicRoutes, isCommitted, globalMiddleware, namedMiddleware, groupVars, appVars>>

\* Server.Use(middleware)
Use ==
    \E mw \in GlobalChoices :
        /\ Len(globalMiddleware) < MaxGlobal
        /\ globalMiddleware' = Append(globalMiddleware, mw)
        /\ served' = NoRequest
        /\ UNCHANGED <<routerVars, namedMiddleware, groupVars, appVars>>

\* Server.RegisterNamed(name, middleware)
RegisterNamed ==
    \E nm \in NamedChoices :
        /\ nm[1] \notin DOMAIN namedMiddleware
        /\ namedMiddleware' = MapPut(namedMiddleware, nm[1], nm[2])
        /\ served' = NoRequest
        /\ UNCHANGED <<routerVars, globalMiddleware, groupVars, appVars>>

\* Server.ServeHTTP(w, r): the whole request, its outcome recorded in served
ServeHTTP ==
    \E path \in ServerPaths, authed \in BOOLEAN :
        /\ served' = ServeHTTPOp(routes, staticRoutes, dynamicRoutes, isCommitted,
                                 globalMiddleware, namedMiddleware, "GET", path, authed)
        /\ UNCHANGED <<routerVars, globalMiddleware, namedMiddleware, groupVars, appVars>>

\* NewServer() with a router that holds one GET route
InitServer ==
    /\ routes \in {<<NewRoute(GetMethods, ServerPattern, h)>> : h \in Handlers}
    /\ staticRoutes = EmptyMap
    /\ dynamicRoutes = EmptyMap
    /\ isCommitted = FALSE
    /\ lookup = NoLookup
    /\ ServerIdle
    /\ GroupIdle

NextServer == RouteMiddleware \/ Commit \/ Use \/ RegisterNamed \/ ServeHTTP

\* the dispatcher: configuration of route and server, and requests served one at a time
SpecServer == InitServer /\ [][NextServer]_vars

(***************************************************************************)
(* Registration through Resource and Group                                 *)
(***************************************************************************)
PrefixP == <<"/", "p">>
PrefixIn == <<"/", "i", "n">>
LitX == <<"x">>

ResourceNames == {LitB}
ResourceControllers == {Controller("posts")}

\* callbacks: one route with its own middleware; a route and a resource; a route and
\* a nested group with its own prefix and middleware
CbGet ==
    << [op |-> "Get", pattern |-> PathOf(<<LitA>>), handler |-> <<"h">>, middleware |-> <<"own">>] >>
CbResource ==
    << [op |-> "Get", pattern |-> PathOf(<<LitA>>), handler |-> <<"h">>, middleware |-> <<>>],
       [op |-> "Resource", name |-> LitB, controller |-> Controller("grouped")] >>
CbNested ==
    << [op |-> "Get", pattern |-> PathOf(<<LitA>>), handler |-> <<"h">>, middleware |-> <<"own">>],
       [op |-> "Group",
        callback |-> << [op |-> "Get", pattern |-> PathOf(<<LitB>>), handler |-> <<"k">>,
                         middleware |-> <<"deep">>] >>,
        prefix |-> PrefixIn, middleware |-> <<"in">>] >>
Callbacks == {CbGet, CbResource, CbNested}

GroupPrefixes == {PrefixP}
GroupMiddlewareNames == {<<"auth", "headers">>}

\* the requests looked up: the six of a resource, and those of the grouped routes with
\* and without the prefixes
RegisterRequests ==
    {<<"GET", PathOf(<<LitB>>)>>, <<"POST", PathOf(<<LitB>>)>>,
     <<"GET", PathOf(<<LitB, LitX>>)>>, <<"PUT", PathOf(<<LitB, LitX>>)>>,
     <<"PATCH", PathOf(<<LitB, LitX>>)>>, <<"DELETE", PathOf(<<LitB, LitX>>)>>,
     <<"GET", PathOf(<<LitA>>)>>, <<"GET", PrefixP \o PathOf(<<LitA>>)>>,
     <<"PATCH", PrefixP \o PathOf(<<LitB, LitX>>)>>,
     <<"GET", PrefixIn \o PathOf(<<LitB>>)>>,
     <<"GET", PrefixP \o PrefixIn \o PathOf(<<LitB>>)>>}

\* Router.Resource(name, controller) on the table
Resource ==
    \E name \in ResourceNames, controller \in ResourceControllers :
        LET r == ResourceOp(routes, name, controller) IN
        /\ Len(r.routes) <= MaxRegistered
        /\ group.made.serial < MaxGroups
        /\ routes' = r.routes
        /\ group' = [routes |-> r.group, prefix_ |-> <<>>, middleware |-> <<>>,
                     made |-> [op |-> "Resource", serial |-> group.made.serial + 1, name |-> name,
                               controller |-> controller, callback |-> <<>>],
                     calls |-> <<>>]
        /\ lookup' = NoLookup
        /\ served' = NoRequest
        /\ UNCHANGED <<staticRoutes, dynamicRoutes, isCommitted, globalMiddleware,
                       namedMiddleware, response, conc, appVars>>

\* Router.Group(callback) on the table
Group ==
    \E callback \in Callbacks :
        LET g == GroupOp(routes, callback) IN
        /\ Len(g.routes) <= MaxRegistered
        /\ group.made.serial < MaxGroups
        /\ routes' = g.routes
        /\ group' = [routes |-> g.group, prefix_ |-> <<>>, middleware |-> <<>>,
                     made |-> [op |-> "Group", serial |-> group.made.serial + 1, name |-> <<>>,
                               controller |-> Controller("none"), callback |-> callback],
                     calls |-> <<>>]
        /\ lookup' = NoLookup
        /\ served' = NoRequest
        /\ UNCHANGED <<staticRoutes, dynamicRoutes, isCommitted, globalMiddleware,
                       namedMiddleware, response, conc, appVars>>

\* RouteGroup.Prefix(prefix) on the group last returned
GroupPrefix ==
    \E prefix \in GroupPrefixes :
        /\ group.made.op # "none"
        /\ Len(group.calls) < MaxGroupCalls
        /\ routes' = PrefixOp(routes, group.routes, prefix)
        /\ group' = [group EXCEPT !.prefix_ = prefix,
                                  !.calls = Append(@, [call |-> "Prefix", arg |-> prefix])]
        /\ lookup' = NoLookup
        /\ served' = NoRequest
        /\ UNCHANGED <<staticRoutes, dynamicRoutes, isCommitted, globalMiddleware,
                       namedMiddleware, response, conc, appVars>>

\* RouteGroup.Middleware(names...) on the group last returned
GroupMiddleware ==
    \E names \in GroupMiddlewareNames :
        /\ group.made.op # "none"
        /\ Len(group.calls) < MaxGroupCalls
        /\ routes' = MiddlewareOp(routes, group.routes, names)
        /\ group' = [group EXCEPT !.middleware = @ \o names,
                                  !.calls = Append(@, [call |-> "Middleware", arg |-> names])]
        /\ lookup' = NoLookup
        /\ served' = NoRequest
        /\ UNCHANGED <<staticRoutes, dynamicRoutes, isCommitted, globalMiddleware,
                       namedMiddleware, response, conc, appVars>>

FindRouteRegistered == \E req \in RegisterRequests : FindRouteCall(req[1], req[2])

NextRegister == Resource \/ Group \/ GroupPrefix \/ GroupMiddleware \/ Commit \/ FindRouteRegistered

\* registration through Resource and Group on a new router, Commit and FindRoute in any order
SpecRegister == InitRouter /\ [][NextRegister]_vars

(***************************************************************************)
(* Operations on one Response (context.go)                                 *)
(***************************************************************************)
MaxOps == 3     \* operations called on the response of one request

ResponseCodes == {404, 500}

\* an operation called on the response: the response it leaves, the call recorded
ResponseCall(op, ctx) ==
    /\ Len(response.ran) < MaxOps
    /\ response' = Entered(ctx, "response", op)
    /\ UNCHANGED <<routerVars, serverVars, group, conc, appVars>>

ResponseStatus == \E code \in ResponseCodes : ResponseCall("Status", Status(response, code))
ResponseJson == ResponseCall("Json", Json(response, [data |-> "ok"], "handler"))
ResponseSend == ResponseCall("Send", Send(response, [text |-> "ok"], "handler"))
ResponseSendBytes == ResponseCall("SendBytes", SendBytes(response, [bytes |-> "ok"], "handler"))
ResponseHeader == ResponseCall("Header", Header(response, "X-Frame-Options", "DENY"))
ResponseRedirect == ResponseCall("Redirect", Redirect(response, "/login", "handler"))
ResponseRedirectStatus ==
    ResponseCall("RedirectStatus", RedirectStatus(response, "/login", 301, "handler"))
ResponseAbort ==
    \E code \in ResponseCodes : ResponseCall("Abort", Abort(response, code, "aborted", "handler"))
ResponseNoContent == ResponseCall("NoContent", NoContent(response, "handler"))
ResponseCreated == ResponseCall("Created", Created(response, [data |-> "created"], "handler"))

\* NewResponse(w) for a new request, the router and the server untouched
InitResponse == RouterInit /\ ServerIdle /\ GroupIdle

NextResponse ==
    \/ ResponseStatus \/ ResponseJson \/ ResponseSend \/ ResponseSendBytes
    \/ ResponseHeader \/ ResponseRedirect \/ ResponseRedirectStatus
    \/ ResponseAbort \/ ResponseNoContent \/ ResponseCreated

\* the operations of Response called in any order on the response of one request
SpecResponse == InitResponse /\ [][NextResponse]_vars

(***************************************************************************)
(* The router's mutex (router.go)                                          *)
(*                                                                         *)
(* Two goroutines share the router: a registrar that calls Get, Group,     *)
(* Prefix on the returned group and Commit, and a reader that calls        *)
(* FindRoute.  Every operation is cut where it takes or releases           *)
(* Router.mu; the loop of Prefix, which takes no lock, is one step for     *)
(* each route it writes.                                                   *)
(***************************************************************************)
LockCallbacks == {CbGet, CbNested}
LockPaths == {PathOf(<<LitA>>), PrefixP \o PathOf(<<LitA>>)}

\* router.mu.Lock() succeeds: no writer and no reader holds the mutex
CanLock == ~conc.mu.writer /\ conc.mu.readers = 0

\* router.mu.RLock() succeeds: no writer holds the mutex
CanRLock == ~conc.mu.writer

\* the registrar takes the write lock and stands before the writes of the operation
RegistrarLock(pc, arg) ==
    /\ conc.registrar.pc = "idle"
    /\ CanLock
    /\ conc' = [conc EXCEPT !.mu.writer = TRUE, !.registrar = [pc |-> pc, i |-> 0, arg |-> arg]]

\* the registrar releases the write lock, the operation done
RegistrarUnlock ==
    conc' = [conc EXCEPT !.mu.writer = FALSE, !.registrar = [pc |-> "idle", i |-> 0, arg |-> <<>>]]

\* addRoute: router.mu.Lock()
LockAddRoute ==
    /\ Len(routes) < MaxRoutes
    /\ RegistrarLock("addRoute", PathOf(<<LitA>>))
    /\ UNCHANGED <<routerVars, serverVars, group, response, appVars>>

\* addRoute: the append under the lock, then router.mu.Unlock()
AppendUnlock ==
    /\ conc.registrar.pc = "addRoute"
    /\ routes' = Append(routes, NewRoute(GetMethods, conc.registrar.arg, <<"h">>))
    /\ RegistrarUnlock
    /\ UNCHANGED <<staticRoutes, dynamicRoutes, isCommitted, lookup, serverVars, group, response, appVars>>

\* Group: the callback run on the sub-router, then router.mu.Lock()
LockGroup ==
    \E callback \in LockCallbacks :
        /\ Len(routes) + Len(RunCallback(callback, 1, <<>>)) <= MaxRoutes
        /\ group.made.serial < MaxGroups
        /\ RegistrarLock("Group", callback)
        /\ UNCHANGED <<routerVars, serverVars, group, response, appVars>>

\* Group: the sub-router's routes appended under the lock, router.mu.Unlock(), the
\* group returned
GroupUnlock ==
    /\ conc.registrar.pc = "Group"
    /\ LET g == GroupOp(routes, conc.registrar.arg) IN
         /\ routes' = g.routes
         /\ group' = [routes |-> g.group, prefix_ |-> <<>>, middleware |-> <<>>,
                      made |-> [op |-> "Group", serial |-> group.made.serial + 1,
                                name |-> <<>>, controller |-> Controller("none"),
                                callback |-> conc.registrar.arg],
                      calls |-> <<>>]
    /\ RegistrarUnlock
    /\ UNCHANGED <<staticRoutes, dynamicRoutes, isCommitted, lookup, serverVars, response, appVars>>

\* Prefix(prefix) on the returned group: g.prefix_ assigned, the loop entered; no lock
\* is taken
PrefixBegin ==
    \E prefix \in GroupPrefixes :
        /\ conc.registrar.pc = "idle"
        /\ group.made.op = "Group"
        /\ Len(group.calls) < MaxGroupCalls
        /\ group' = [group EXCEPT !.prefix_ = prefix,
                                  !.calls = Append(@, [call |-> "Prefix", arg |-> prefix])]
        /\ conc' = [conc EXCEPT !.registrar = [pc |-> "Prefix", i |-> 1, arg |-> prefix]]
        /\ UNCHANGED <<routerVars, serverVars, response, appVars>>

\* one turn of the loop of Prefix: route.pattern = prefix + route.pattern; after the
\* last route Prefix returns
PrefixWrite ==
    /\ conc.registrar.pc = "Prefix"
    /\ LET i == conc.registrar.i IN
         IF i <= Len(group.routes)
         THEN /\ routes' = [routes EXCEPT ![group.routes[i]].pattern = conc.registrar.arg \o @]
              /\ conc' = [conc EXCEPT !.registrar.i = i + 1]
         ELSE /\ routes' = routes
              /\ conc' = [conc EXCEPT !.registrar = [pc |-> "idle", i |-> 0, arg |-> <<>>]]
    /\ UNCHANGED <<staticRoutes, dynamicRoutes, isCommitted, lookup, serverVars, group, response, appVars>>

\* Commit: router.mu.Lock()
LockCommit ==
    /\ RegistrarLock("Commit", <<>>)
    /\ UNCHANGED <<routerVars, serverVars, group, response, appVars>>

\* Commit: the structures rebuilt under the lock; the deferred router.mu.Unlock()
CommitUnlock ==
    /\ conc.registrar.pc = "Commit"
    /\ LET c == CommitOp(routes) IN
         /\ staticRoutes' = c.static
         /\ dynamicRoutes' = c.dynamic
    /\ isCommitted' = TRUE
    /\ RegistrarUnlock
    /\ UNCHANGED <<routes, lookup, serverVars, group, response, appVars>>

\* FindRoute: router.mu.RLock()
ReaderRLock ==
    /\ conc.reader.pc = "idle"
    /\ CanRLock
    /\ conc' = [conc EXCEPT !.mu.readers = @ + 1, !.reader.pc = "scan"]
    /\ UNCHANGED <<routerVars, serverVars, group, response, appVars>>

\* FindRoute: the three lookups, made while the read lock is held
ReaderScan ==
    \E path \in LockPaths :
        /\ conc.reader.pc = "scan"
        /\ lookup' = [called |-> TRUE, method |-> "GET", path |-> path,
                      result |-> FindRouteOp(routes, staticRoutes, dynamicRoutes,
                                             isCommitted, "GET", path)]
        /\ conc' = [conc EXCEPT !.reader.pc = "unlock"]
        /\ UNCHANGED <<routes, staticRoutes, dynamicRoutes, isCommitted, serverVars, group, response, appVars>>

\* FindRoute: the deferred router.mu.RUnlock()
ReaderRUnlock ==
    /\ conc.reader.pc = "unlock"
    /\ conc' = [conc EXCEPT !.mu.readers = @ - 1, !.reader.pc = "idle"]
    /\ UNCHANGED <<routerVars, serverVars, group, response, appVars>>

NextLock ==
    \/ LockAddRoute \/ AppendUnlock \/ LockGroup \/ GroupUnlock
    \/ PrefixBegin \/ PrefixWrite \/ LockCommit \/ CommitUnlock
    \/ ReaderRLock \/ ReaderScan \/ ReaderRUnlock

\* registration and lookup running concurrently on one router
SpecLock == InitRouter /\ [][NextLock]_vars

(***************************************************************************)
(* Dispatcher properties                                                   *)
(***************************************************************************)
\* a request was served under the present configuration
Served == served.request.called

\* the middleware the served route's names resolve to, in the order declared
ResolvedNamed ==
    LET known == SelectSeq(routes[served.route].middleware,
                           LAMBDA n : n \in DOMAIN namedMiddleware)
    IN  [i \in 1..Len(known) |-> namedMiddleware[known[i]]]

\* global middleware, then the route's, then the handler
ExpectedUnits ==
    LET mws == globalMiddleware \o ResolvedNamed IN
    [i \in 1..(Len(mws) + 1) |->
        IF i <= Len(mws) THEN [unit |-> "middleware", id |-> mws[i]]
        ELSE [unit |-> "handler", id |-> routes[served.route].handler]]

\* the middleware invokes its continuation
CallsNext(mw, authed) == mw \in {"secure", "recovery"} \/ (mw = "auth" /\ authed)

\* how far into ExpectedUnits the request gets: up to the first middleware that does
\* not invoke its continuation
Reach ==
    LET mws == globalMiddleware \o ResolvedNamed
        stops == {i \in 1..Len(mws) : ~CallsNext(mws[i], served.request.authed)}
    IN  IF stops = {} THEN Len(mws) + 1 ELSE Min(stops)

\* the positions of the writes made by ServeHTTP itself, and of those made underneath it
DispatcherWrites == {i \in 1..Len(served.ctx.writes) : served.ctx.writes[i].by = "dispatcher"}
ChainWrites == {i \in 1..Len(served.ctx.writes) : served.ctx.writes[i].by # "dispatcher"}

\* C1: for a request that matches a route, what runs is the global middleware in
\* registration order, then the route's resolved named middleware in declared order,
\* then the handler, cut after the first middleware that does not invoke its
\* continuation: nothing after it runs, the handler included.
C1_ChainOrder ==
    (Served /\ served.route # 0) => served.ctx.ran = SubSeq(ExpectedUnits, 1, Reach)

\* C1 witness: globals [A, B] and one resolved route middleware C ran as A, B, C, handler.
C1_Witness ==
    /\ Served
    /\ served.route # 0
    /\ Len(globalMiddleware) = 2
    /\ globalMiddleware[1] # globalMiddleware[2]
    /\ Len(ResolvedNamed) = 1
    /\ Len(served.ctx.ran) = 4
    /\ served.ctx.ran[4].unit = "handler"

\* C1, second case reached: B does not invoke its continuation, so C and the handler
\* never run.
C1_WitnessShortCircuit ==
    /\ Served
    /\ served.route # 0
    /\ Len(globalMiddleware) = 2
    /\ globalMiddleware[2] = "deny"
    /\ Len(ResolvedNamed) = 1
    /\ Len(served.ctx.ran) = 2

\* C2, as stated: every request that ServeHTTP handles to its end gets exactly one
\* response written.
C2_AsStated ==
    (Served /\ served.result.outcome # "panic") => Len(served.ctx.writes) = 1

\* C2, amended: ServeHTTP itself writes at most one response per request and only
\* while the response is open (its write is the first); an unresolved route gets exactly
\* one response (the 404); a chain that returns a failure leaves at least one response,
\* exactly one (the 500) when handler and middleware wrote none.  Beyond that the
\* number of responses is the number the handler and middleware wrote.
C2_DispatcherWritesOnce ==
    Served =>
        /\ Cardinality(DispatcherWrites) <= 1
        /\ DispatcherWrites \subseteq {1}
        /\ (served.route = 0 => Len(served.ctx.writes) = 1)
        /\ (served.result.outcome = "error" => Len(served.ctx.writes) >= 1)
        /\ ((served.result.outcome = "error" /\ ChainWrites = {})
              => Len(served.ctx.writes) = 1)
        /\ ((served.route # 0 /\ served.result.outcome # "error") => DispatcherWrites = {})

\* C2 witness: a failure passed up through two global middleware with nothing written
\* leaves exactly one response, written by ServeHTTP.
C2_Witness ==
    /\ Served
    /\ served.result.outcome = "error"
    /\ Len(globalMiddleware) = 2
    /\ Len(served.ctx.ran) = 3
    /\ Len(served.ctx.writes) = 1
    /\ DispatcherWrites = {1}

\* C3: when the chain returns a failure and nothing was written, ServeHTTP writes the
\* structured 500: error, message (the failure's text) and status = 500.
C3_OpenFailureGets500 ==
    (Served /\ served.route # 0 /\ served.result.outcome = "error" /\ ChainWrites = {}) =>
        served.ctx.writes =
            << [code |-> 500,
                body |-> [error |-> "Internal Server Error",
                          message |-> served.result.msg,
                          status |-> 500],
                by |-> "dispatcher"] >>

\* C3 witness: the handler returned a failure without writing and the client got the 500.
C3_Witness ==
    /\ Served
    /\ served.route # 0
    /\ routes[served.route].handler = "fail"
    /\ served.ctx.ran[Len(served.ctx.ran)].unit = "handler"
    /\ served.result.outcome = "error"
    /\ Len(served.ctx.writes) = 1
    /\ served.ctx.writes[1].code = 500
    /\ served.ctx.writes[1].body.status = 500

\* C4: when the chain returns a failure after a response was written, ServeHTTP writes
\* nothing more; and a failure is logged whether or not a response had been written.
C4_CommittedFailureOnlyLogged ==
    (Served /\ served.result.outcome = "error") =>
        /\ served.logged = <<served.result.msg>>
        /\ (ChainWrites # {} => DispatcherWrites = {})

\* C4 witness: the handler wrote a 201 and then returned a failure; the 201 is the only
\* response and the failure is logged.
C4_Witness ==
    /\ Served
    /\ served.result.outcome = "error"
    /\ Len(served.ctx.writes) = 1
    /\ served.ctx.writes[1].code = 201
    /\ served.ctx.writes[1].by = "handler"
    /\ Len(served.logged) = 1

\* C5: when no route matches, ServeHTTP writes the structured 404 (status 404) and
\* nothing runs: no middleware, global or named, and no handler.
C5_NotFoundRunsNothing ==
    (Served /\ served.route = 0) =>
        /\ served.ctx.ran = <<>>
        /\ served.ctx.writes =
             << [code |-> 404,
                 body |-> [error |-> "Not Found",
                           message |-> <<"Cannot", served.request.method, served.request.path>>,
                           status |-> 404],
                 by |-> "dispatcher"] >>

\* C5 witness: with global middleware registered and named middleware on the route, a
\* path that matches no route got the 404 and nothing ran.
C5_Witness ==
    /\ Served
    /\ served.route = 0
    /\ Len(globalMiddleware) >= 1
    /\ Len(routes[1].middleware) >= 1
    /\ served.ctx.ran = <<>>
    /\ Len(served.ctx.writes) = 1
    /\ served.ctx.writes[1].code = 404

(***************************************************************************)
(* Route-table properties                                                  *)
(***************************************************************************)
\* the segments Route.match compares
Segs(s) == Split(Trim(s, "/"), "/")

IsParamSeg(seg) == HasPrefix(seg, ":")
IsWildSeg(seg) == HasPrefix(seg, "*")
IsMarkerSeg(seg) == IsParamSeg(seg) \/ IsWildSeg(seg)

\* a pattern with a parameter or wildcard segment
HasMarkerSeg(pattern) == \E i \in 1..Len(Segs(pattern)) : IsMarkerSeg(Segs(pattern)[i])

\* the compiled structures are those Commit builds from the present registration list
Fresh ==
    /\ isCommitted
    /\ [static |-> staticRoutes, dynamic |-> dynamicRoutes] = CommitOp(routes)

\* the routes registered with this pattern that accept the method
SamePattern(method, pattern) ==
    {k \in 1..Len(routes) : routes[k].pattern = pattern /\ method \in MethodSet(routes[k])}

\* the routes with a parameter or wildcard segment that accept the method and match the path
DynMatches(method, path) ==
    {k \in 1..Len(routes) :
        /\ HasMarkerSeg(routes[k].pattern)
        /\ method \in MethodSet(routes[k])
        /\ Match(routes[k].pattern, path).ok}

\* the routes without such a segment that accept the method and match the path
LiteralMatches(method, path) ==
    {k \in 1..Len(routes) :
        /\ ~HasMarkerSeg(routes[k].pattern)
        /\ method \in MethodSet(routes[k])
        /\ Match(routes[k].pattern, path).ok}

DeclaredNames(pp) == {Tail(pp[i]) : i \in {j \in 1..Len(pp) : IsMarkerSeg(pp[j])}}

\* the names of the pattern's parameter and wildcard segments are pairwise distinct
DistinctNames(pp) ==
    \A i, j \in 1..Len(pp) :
        (i # j /\ IsMarkerSeg(pp[i]) /\ IsMarkerSeg(pp[j])) => Tail(pp[i]) # Tail(pp[j])

C8_AsStated ==
    lookup.called =>
        LET pp == Segs(routes[1].pattern)
            xs == Segs(lookup.path)
            n == Len(pp)
        IN  (/\ IsWildSeg(pp[n])
             /\ \A i \in 1..(n - 1) : ~IsMarkerSeg(pp[i])
             /\ Len(xs) >= n
             /\ \A i \in 1..(n - 1) : xs[i] = pp[i])
            => /\ lookup.result.found
               /\ Tail(pp[n]) \in DOMAIN lookup.result.params
               /\ lookup.result.params[Tail(pp[n])] = Join(SubSeq(xs, n, Len(xs)), "/")

\* C9, as stated: when two or more dynamic routes of the method match the path,
\* FindRoute returns the one registered first.
C9_AsStated ==
    (lookup.called /\ Cardinality(DynMatches(lookup.method, lookup.path)) >= 2) =>
        /\ lookup.result.found
        /\ lookup.result.route = Min(DynMatches(lookup.method, lookup.path))

\* C9, amended: when two or more dynamic routes of the method match the path,
\* FindRoute never returns a later one of them: if it returns a dynamic route, that is
\* the first registered of them, with the bindings of that route; and it does return
\* that route when the table was never committed or was committed after its last
\* registration and no route without parameter or wildcard segments matches the path
\* for that method.
C9_FirstDynamicWins ==
    (lookup.called /\ Cardinality(DynMatches(lookup.method, lookup.path)) >= 2) =>
        LET first == Min(DynMatches(lookup.method, lookup.path)) IN
        /\ (lookup.result.found /\ HasMarkerSeg(routes[lookup.result.route].pattern))
            => lookup.result = Found(first, Match(routes[first].pattern, lookup.path).params)
        /\ ((~isCommitted \/ Fresh) /\ LiteralMatches(lookup.method, lookup.path) = {})
            => lookup.result = Found(first, Match(routes[first].pattern, lookup.path).params)

\* C9 witness: a committed table with two dynamic routes that both match the path
\* resolves it to the one registered first.
C9_Witness ==
    /\ lookup.called
    /\ Fresh
    /\ Cardinality(DynMatches(lookup.method, lookup.path)) >= 2
    /\ lookup.result.found
    /\ lookup.result.route = Min(DynMatches(lookup.method, lookup.path))

\* C10: a lookup whose path matches no route that accepts the method is not found,
\* before and after Commit, with the very result of a path that matches no route at all.
C10_MethodMismatchNotFound ==
    (/\ lookup.called
     /\ \A k \in 1..Len(routes) :
           ~(lookup.method \in MethodSet(routes[k]) /\ Match(routes[k].pattern, lookup.path).ok))
    => lookup.result = NotFound

\* C10 witness: after Commit, a path that a GET-only route matches is looked up under
\* POST and is not found.
C10_Witness ==
    /\ lookup.called
    /\ isCommitted
    /\ lookup.method = "POST"
    /\ \E k \in 1..Len(routes) : Match(routes[k].pattern, lookup.path).ok
    /\ \A k \in 1..Len(routes) : "POST" \notin MethodSet(routes[k])
    /\ lookup.result = NotFound

\* C10 witness before Commit: the same on a table that was never committed.
C10_WitnessUncommitted ==
    /\ lookup.called
    /\ ~isCommitted
    /\ lookup.method = "POST"
    /\ \E k \in 1..Len(routes) : Match(routes[k].pattern, lookup.path).ok
    /\ \A k \in 1..Len(routes) : "POST" \notin MethodSet(routes[k])
    /\ lookup.result = NotFound

(***************************************************************************)
(* Registration properties                                                 *)
(***************************************************************************)
\* the table was never compiled, or is compiled from the present registration list
UpToDate == ~isCommitted \/ Fresh

\* the routes that accept the method and match the path
Matches(method, path) ==
    {k \in 1..Len(routes) : method \in MethodSet(routes[k]) /\ Match(routes[k].pattern, path).ok}

\* the five routes of a resource: pattern, methods, controller action and name
ResourceRoutes(name, controller) ==
    << [pattern |-> Slash \o name, methods |-> <<"GET">>, handler |-> controller.Index,
        name |-> name \o DotIndex, middleware |-> <<>>],
       [pattern |-> Slash \o name, methods |-> <<"POST">>, handler |-> controller.Store,
        name |-> name \o DotStore, middleware |-> <<>>],
       [pattern |-> Slash \o name \o ColonId, methods |-> <<"GET">>, handler |-> controller.Show,
        name |-> name \o DotShow, middleware |-> <<>>],
       [pattern |-> Slash \o name \o ColonId, methods |-> <<"PUT", "PATCH">>,
        handler |-> controller.Update, name |-> name \o DotUpdate, middleware |-> <<>>],
       [pattern |-> Slash \o name \o ColonId, methods |-> <<"DELETE">>,
        handler |-> controller.Destroy, name |-> name \o DotDestroy, middleware |-> <<>>] >>

\* a step in which Resource returned its group
ResourceReturned ==
    /\ group'.made.op = "Resource"
    /\ group'.made.serial # group.made.serial

\* the path at which the j-th route of a resource is requested: the base path, or the
\* base path and an id
ResourcePath(name, j) == IF j <= 2 THEN Slash \o name ELSE Slash \o name \o Slash \o LitX

RECURSIVE ExpectedFrom(_, _, _, _)
\* what the registrations of a callback, from the i-th on, are to become under a group
\* with this prefix and these middleware names: each route at the prefix followed by
\* its pattern, the names ahead of its own, a nested group adding its prefix and its
\* names after the outer ones
ExpectedFrom(callback, i, prefix, names) ==
    IF i > Len(callback) THEN <<>>
    ELSE LET c == callback[i]
             under(r) == [r EXCEPT !.pattern = prefix \o @, !.middleware = names \o @]
             here ==
                CASE c.op = "Get" ->
                        << [pattern |-> prefix \o c.pattern, methods |-> <<"GET">>,
                            handler |-> c.handler, name |-> <<>>,
                            middleware |-> names \o c.middleware] >>
                  [] c.op = "Resource" ->
                        [j \in 1..5 |-> under(ResourceRoutes(c.name, c.controller)[j])]
                  [] c.op = "Group" ->
                        ExpectedFrom(c.callback, 1, prefix \o c.prefix, names \o c.middleware)
         IN  here \o ExpectedFrom(callback, i + 1, prefix, names)

\* Group(cb).Prefix(p).Middleware(names...) has been called, in this order, and nothing
\* else on the group
GroupConfigured ==
    /\ group.made.op = "Group"
    /\ Len(group.calls) = 2
    /\ group.calls[1].call = "Prefix"
    /\ group.calls[2].call = "Middleware"

C20_WitnessResource ==
    /\ GroupConfigured
    /\ group.made.callback = CbResource
    /\ lookup.called
    /\ lookup.method = "PATCH"
    /\ lookup.path = PrefixP \o PathOf(<<LitB, LitX>>)
    /\ lookup.result.found
    /\ routes[lookup.result.route].handler = <<"grouped", "Update">>
    /\ routes[lookup.result.route].middleware = <<"auth", "headers">>

(***************************************************************************)
(* Compilation properties                                                  *)
(***************************************************************************)
\* the patterns under which the static index of the method holds route k
StaticKeys(method, k) ==
    IF method \in DOMAIN staticRoutes
    THEN {p \in DOMAIN staticRoutes[method] : staticRoutes[method][p] = k}
    ELSE {}

\* the positions at which the dynamic list of the method holds route k
DynamicPositions(method, k) ==
    IF method \in DOMAIN dynamicRoutes
    THEN {i \in 1..Len(dynamicRoutes[method]) : dynamicRoutes[method][i] = k}
    ELSE {}

\* C12, as stated: after Commit every registered route is, for each of its methods, in
\* exactly one of the two compiled structures: under its pattern in the static index if
\* the pattern has no ':' or '*', once in the dynamic list of the method otherwise.
C12_AsStated ==
    Fresh =>
        \A k \in 1..Len(routes) : \A m \in MethodSet(routes[k]) :
            IF IsDynamic(routes[k].pattern)
            THEN Cardinality(DynamicPositions(m, k)) = 1 /\ StaticKeys(m, k) = {}
            ELSE StaticKeys(m, k) = {routes[k].pattern} /\ DynamicPositions(m, k) = {}

\* C12, amended: after Commit every registered route is, for each of its methods, in at
\* most one of the two compiled structures and never in both: a route whose pattern
\* contains ':' or '*' is exactly once in the dynamic list of the method, the list being
\* in registration order; a route whose pattern contains neither is under its pattern
\* in the static index unless a later route was registered with the same pattern and
\* method, in which case it is in neither structure.  The structures hold nothing
\* else, and a step that registers nothing (a further Commit included) leaves the
\* structures of an up-to-date table as they are.
C12_CompiledOnce ==
    /\ [](Fresh =>
            /\ \A k \in 1..Len(routes) : \A m \in MethodSet(routes[k]) :
                 IF IsDynamic(routes[k].pattern)
                 THEN Cardinality(DynamicPositions(m, k)) = 1 /\ StaticKeys(m, k) = {}
                 ELSE /\ DynamicPositions(m, k) = {}
                      /\ StaticKeys(m, k) =
                           IF k = Max(SamePattern(m, routes[k].pattern))
                           THEN {routes[k].pattern} ELSE {}
            /\ \A m \in DOMAIN staticRoutes : \A p \in DOMAIN staticRoutes[m] :
                 LET k == staticRoutes[m][p] IN
                 k \in 1..Len(routes) /\ m \in MethodSet(routes[k]) /\ routes[k].pattern = p
            /\ \A m \in DOMAIN dynamicRoutes :
                 LET list == dynamicRoutes[m] IN
                 /\ \A i \in 1..Len(list) :
                      list[i] \in 1..Len(routes) /\ m \in MethodSet(routes[list[i]])
                 /\ \A i, j \in 1..Len(list) : i < j => list[i] < list[j])
    /\ [][(Fresh /\ routes' = routes) =>
            (staticRoutes' = staticRoutes /\ dynamicRoutes' = dynamicRoutes /\ isCommitted')]_vars

\* C12 witness: a compiled table of three routes, one of them dynamic and registered
\* for every method, and a static pattern registered twice for GET.
C12_Witness ==
    /\ Fresh
    /\ Len(routes) = 3
    /\ \E k \in 1..3 : IsDynamic(routes[k].pattern) /\ Len(routes[k].methods) > 1
    /\ \E k \in 1..3 : ~IsDynamic(routes[k].pattern)
                       /\ Cardinality(SamePattern("GET", routes[k].pattern)) = 2

(***************************************************************************)
(* Response properties                                                     *)
(***************************************************************************)
\* the operation called last on the response
LastOp == response.ran[Len(response.ran)].id

\* the operations the response state machine counts as writes
WriteOps ==
    {"Status", "Json", "Send", "SendBytes", "Redirect", "RedirectStatus", "NoContent",
     "Abort", "Created"}

\* C13, as stated: after Status, Json, Send, SendBytes, Redirect, RedirectStatus,
\* NoContent, Abort or Created has been called, IsCommitted() is true.
C13_AsStated ==
    (Len(response.ran) >= 1 /\ LastOp \in WriteOps) => IsCommitted(response)

\* C13, amended: after Json, Send, SendBytes, Redirect, RedirectStatus, NoContent, Abort
\* or Created has been called, IsCommitted() is true and the call has written one
\* status line; Status(code) only records the code for the next write: it writes
\* nothing and leaves IsCommitted() as it was, false on a new response.
C13_WritesCommit ==
    /\ []((Len(response.ran) >= 1 /\ LastOp \in WriteOps \ {"Status"}) =>
            IsCommitted(response) /\ Len(response.writes) >= 1)
    /\ [][(Len(response'.ran) = Len(response.ran) + 1) =>
            LET op == response'.ran[Len(response'.ran)].id IN
            /\ (op \in WriteOps \ {"Status"} =>
                   Len(response'.writes) = Len(response.writes) + 1)
            /\ (op = "Status" =>
                   /\ IsCommitted(response') = IsCommitted(response)
                   /\ response'.writes = response.writes
                   /\ response'.statusCode \in ResponseCodes)]_vars

\* C13 witness: Status(404) and then NoContent() were called; the response is committed
\* by the second call, which wrote the 204.
C13_Witness ==
    /\ Len(response.ran) = 2
    /\ response.ran[1].id = "Status"
    /\ response.ran[2].id = "NoContent"
    /\ response.statusCode = 404
    /\ Len(response.writes) = 1
    /\ response.writes[1].code = 204
    /\ IsCommitted(response)

\* C14: once IsCommitted() is true for a response it is true after every later
\* operation on it.
C14_CommittedForGood ==
    [][IsCommitted(response) => IsCommitted(response')]_vars

\* C14 witness: the response was committed by the first call and two more operations,
\* Status and Header, were called on it afterwards.
C14_Witness ==
    /\ Len(response.ran) = 3
    /\ response.ran[1].id = "Json"
    /\ response.ran[2].id = "Status"
    /\ response.ran[3].id = "Header"
    /\ IsCommitted(response)

(***************************************************************************)
(* Locking properties                                                      *)
(***************************************************************************)
\* the registrar stands before a write to state that FindRoute reads
WritePending ==
    \/ conc.registrar.pc \in {"addRoute", "Group", "Commit"}
    \/ conc.registrar.pc = "Prefix" /\ conc.registrar.i <= Len(group.routes)

\* the reader stands before its reads of the table, the read lock held
ReadPending == conc.reader.pc = "scan"

\* C15, as stated: state that FindRoute reads is written only while the write lock is
\* held, and no lookup reads the table while a write to it is under way.
C15_AsStated ==
    /\ WritePending => conc.mu.writer
    /\ ~(ReadPending /\ WritePending)

(***************************************************************************)
(* Recovery and missing middleware                                         *)
(***************************************************************************)
\* the served request entered RecoveryMiddleware and, beneath it, a handler that panics
PanicUnderRecovery ==
    /\ Served
    /\ served.route # 0
    /\ \E i, j \in 1..Len(served.ctx.ran) :
          /\ i < j
          /\ served.ctx.ran[i] = [unit |-> "middleware", id |-> "recovery"]
          /\ served.ctx.ran[j].unit = "handler"
          /\ served.ctx.ran[j].id \in {"panic", "write_then_panic"}

\* C16, as stated: when a handler panics beneath RecoveryMiddleware, the chain returns a
\* failure to ServeHTTP, which logs it.
C16_AsStated ==
    PanicUnderRecovery =>
        /\ served.result.outcome = "error"
        /\ Len(served.logged) = 1

\* the served route declares a middleware name that is not registered
MissingName ==
    \E i \in 1..Len(routes[served.route].middleware) :
        routes[served.route].middleware[i] \notin DOMAIN namedMiddleware

\* the registration list with every unregistered middleware name taken off the routes
WithoutMissing ==
    [k \in 1..Len(routes) |->
        [routes[k] EXCEPT !.middleware = SelectSeq(@, LAMBDA n : n \in DOMAIN namedMiddleware)]]

\* C19: a request whose route declares a middleware name that is not registered is
\* served exactly as if the name were not declared: the global middleware and the
\* route's registered names run in their declared order, then the handler (up to a
\* middleware that does not call next), none of the writes is ServeHTTP's 404, and the
\* responses, the result and the log are those of the same request on the route
\* without the name.
C19_MissingNameSkipped ==
    (Served /\ served.route # 0 /\ MissingName) =>
        /\ served = ServeHTTPOp(WithoutMissing, staticRoutes, dynamicRoutes, isCommitted,
                                globalMiddleware, namedMiddleware,
                                served.request.method, served.request.path,
                                served.request.authed)
        /\ served.ctx.ran = SubSeq(ExpectedUnits, 1, Reach)
        /\ \A i \in 1..Len(served.ctx.writes) : served.ctx.writes[i].code # 404

\* C19 witness: the route declares "missing" and then "auth"; with auth registered and
\* one global middleware, the request ran the global middleware, auth and the handler,
\* whose 200 is the only response.
C19_Witness ==
    /\ Served
    /\ served.route # 0
    /\ routes[served.route].middleware = <<"missing", "auth">>
    /\ "auth" \in DOMAIN namedMiddleware
    /\ Len(globalMiddleware) = 1
    /\ Len(served.ctx.ran) = 3
    /\ served.ctx.ran[2] = [unit |-> "middleware", id |-> "auth"]
    /\ served.ctx.ran[3] = [unit |-> "handler", id |-> "ok"]
    /\ Len(served.ctx.writes) = 1
    /\ served.ctx.writes[1].code = 200
    /\ served.result = Nil

(***************************************************************************)
(* Registration after Commit, and duplicate registrations                  *)
(***************************************************************************)
\* C17, as stated: a route that accepts the method and matches the path is found by
\* FindRoute whenever it is registered, after Commit() as well as before, with no
\* further Commit().
C17_AsStated ==
    (lookup.called /\ Matches(lookup.method, lookup.path) # {}) => lookup.result.found

C18_WitnessUncommitted ==
    /\ lookup.called
    /\ ~isCommitted
    /\ lookup.path = PathOf(<<LitA>>)
    /\ Cardinality(SamePattern(lookup.method, lookup.path)) = 2
    /\ lookup.result.found
    /\ lookup.result.route = Min(SamePattern(lookup.method, lookup.path))

(***************************************************************************)
(* Empty parameter bindings, and lookups before and after Commit           *)
(***************************************************************************)
\* C21, as stated: FindRoute never returns a match in which a `:name` segment of the
\* route's pattern is bound to the empty string.
C21_AsStated ==
    (lookup.called /\ lookup.result.found) =>
        LET pp == Segs(routes[lookup.result.route].pattern)
            params == lookup.result.params
        IN  \A i \in 1..Len(pp) :
                (IsParamSeg(pp[i]) /\ Tail(pp[i]) \in DOMAIN params)
                => params[Tail(pp[i])] # Empty

\* what FindRoute returns on a table with these registrations that was never compiled
BeforeCommit(method, path) == FindRouteOp(routes, EmptyMap, EmptyMap, FALSE, method, path)

\* C26, as stated: on the table as compiled by Commit, FindRoute gives the verdict, the
\* route and the parameter bindings that it gave, for the same registrations, method
\* and path, before the first Commit.
C26_AsStated ==
    (lookup.called /\ Fresh) => lookup.result = BeforeCommit(lookup.method, lookup.path)

(***************************************************************************)
(* The IoC container                                                       *)
(*                                                                         *)
(* Every method of Container holds c.mu for a stretch of code that calls   *)
(* nothing outside the container, so each such stretch is one step: the    *)
(* registrations whole (they hold the write lock from entry to return),    *)
(* Make in up to three steps: the read-locked resolution, the factory call *)
(* made with no lock held, and the write-locked store of a singleton.      *)
(* A factory call returns a new instance, named by the factory and by the  *)
(* number of the call.                                                     *)
(***************************************************************************)
MaxSetup == 4     \* calls of Bind, Singleton, Alias, Fake and Restore
MaxMakes == 3     \* calls of Make

Namespaces == {"a", "b"}

\* what resolveNamespace never returns: the recursion did not end
StackOverflow == "stack overflow"

MapDelete(m, k) == [x \in (DOMAIN m) \ {k} |-> m[x]]

RECURSIVE resolveFrom(_, _, _)
\* the recursion of resolveNamespace; a chain that looks up more aliases than the map
\* holds is on a cycle and never returns
resolveFrom(aliases, namespace, hops) ==
    IF namespace \in DOMAIN aliases
    THEN IF hops = 0 THEN StackOverflow
         ELSE resolveFrom(aliases, aliases[namespace], hops - 1)
    ELSE namespace

\* Container.resolveNamespace(namespace)
resolveNamespace(aliases, namespace) ==
    resolveFrom(aliases, namespace, Cardinality(DOMAIN aliases))

\* Container.Fake(namespace, factory), the alias chain ending
FakeOp(c, namespace, factory) ==
    [c EXCEPT !.fakes = MapPut(@, resolveNamespace(c.aliases, namespace), factory)]

\* Container.Restore with the fake deleted under the name as given
RestoreUnresolved(c, namespace) ==
    [c EXCEPT !.fakes = MapDelete(@, namespace)]

\* Container.Restore(namespace), the alias chain ending
RestoreOp(c, namespace) ==
    [c EXCEPT !.fakes = MapDelete(@, resolveNamespace(c.aliases, namespace))]

\* Container.HasBinding(namespace), the alias chain ending
HasBindingOp(c, namespace) ==
    LET resolved == resolveNamespace(c.aliases, namespace)
    IN  resolved \in DOMAIN c.bindings \/ resolved \in DOMAIN c.singletons

Ok(instance) == [ok |-> TRUE, value |-> instance]
Failed == [ok |-> FALSE, value |-> [by |-> "", n |-> 0]]

\* Container.Make up to the call of a factory or the return: what the goroutine holds
\* after the read-locked part
MakeLocked(c, namespace) ==
    LET resolved == resolveNamespace(c.aliases, namespace)
        call == [NoMake EXCEPT !.namespace = namespace, !.resolved = resolved,
                               !.at = [phase |-> c.trip.phase, tid |-> c.trip.tid]]
    IN  IF resolved \in DOMAIN c.fakes
        THEN [call EXCEPT !.pc = "factory", !.kind = "fake", !.factory = c.fakes[resolved]]
        ELSE IF resolved \in DOMAIN c.instances
        THEN [call EXCEPT !.pc = "done", !.kind = "instance",
                          !.result = Ok(c.instances[resolved])]
        ELSE IF resolved \in DOMAIN c.singletons
        THEN [call EXCEPT !.pc = "factory", !.kind = "singleton",
                          !.factory = c.singletons[resolved]]
        ELSE IF resolved \in DOMAIN c.bindings
        THEN [call EXCEPT !.pc = "factory", !.kind = "binding",
                          !.factory = c.bindings[resolved]]
        ELSE [call EXCEPT !.pc = "done", !.kind = "none", !.result = Failed]

\* the end of Make for a singleton: under the write lock, return the instance another
\* goroutine stored meanwhile, or store and return the new one
StoreOp(c, i) ==
    LET call == c.g[i]
    IN  IF call.resolved \in DOMAIN c.instances
        THEN [c EXCEPT !.g[i].pc = "done",
                       !.g[i].result = Ok(c.instances[call.resolved])]
        ELSE [c EXCEPT !.instances = MapPut(@, call.resolved, call.instance),
                       !.g[i].pc = "done",
                       !.g[i].result = Ok(call.instance)]

ContainerStep(c) ==
    /\ container' = c
    /\ UNCHANGED <<httpVars, dispatcher, limiter, queue, hub>>

\* a registration call can be made
CanSetup == ~container.crashed /\ container.setup < MaxSetup

\* unbounded recursion: the Go runtime ends the process
Crash == ContainerStep([container EXCEPT !.crashed = TRUE])

\* Container.Bind(namespace, factory)
ContainerBind ==
    /\ CanSetup
    /\ \E ns \in Namespaces :
         ContainerStep([container EXCEPT !.bindings = MapPut(@, ns, "bound"),
                                         !.setup = @ + 1, !.trip = NoTrip])

\* Container.Singleton(namespace, factory)
ContainerSingleton ==
    /\ CanSetup
    /\ \E ns \in Namespaces :
         ContainerStep([container EXCEPT !.singletons = MapPut(@, ns, "single"),
                                         !.invoked = MapPut(@, ns, 0),
                                         !.setup = @ + 1, !.trip = NoTrip])

\* Container.Alias(alias, namespace)
ContainerAlias ==
    /\ CanSetup
    /\ \E alias \in Namespaces, ns \in Namespaces :
         ContainerStep([container EXCEPT !.aliases = MapPut(@, alias, ns),
                                         !.setup = @ + 1, !.trip = NoTrip])

\* Container.Fake(namespace, factory)
ContainerFake ==
    /\ CanSetup
    /\ \E ns \in Namespaces :
         LET resolved == resolveNamespace(container.aliases, ns) IN
         IF resolved = StackOverflow THEN Crash
         ELSE ContainerStep(
                [FakeOp(container, ns, "fake") EXCEPT
                    !.setup = @ + 1,
                    !.trip = IF resolved \in DOMAIN container.fakes THEN NoTrip
                             ELSE [phase |-> "faked", tid |-> container.setup + 1,
                                   namespace |-> ns, fake |-> "fake",
                                   before |-> ContainerMaps(container.bindings,
                                                 container.singletons, container.instances,
                                                 container.aliases, container.fakes)]])

\* Container.Restore(namespace)
ContainerRestore ==
    /\ CanSetup
    /\ \E ns \in Namespaces :
         LET resolved == resolveNamespace(container.aliases, ns) IN
         IF resolved = StackOverflow THEN Crash
         ELSE ContainerStep(
                [RestoreOp(container, ns) EXCEPT
                    !.setup = @ + 1,
                    !.trip = IF container.trip.phase = "faked" /\ container.trip.namespace = ns
                             THEN [@ EXCEPT !.phase = "restored"]
                             ELSE NoTrip])

\* Container.HasBinding(namespace)
ContainerHasBinding ==
    /\ ~container.crashed
    /\ \E ns \in Namespaces :
         /\ container.has # [called |-> TRUE, namespace |-> ns,
                             result |-> HasBindingOp(container, ns)]
         /\ IF resolveNamespace(container.aliases, ns) = StackOverflow THEN Crash
            ELSE ContainerStep([container EXCEPT
                    !.has = [called |-> TRUE, namespace |-> ns,
                             result |-> HasBindingOp(container, ns)]])

\* Container.Make(namespace), from RLock to the RUnlock of the branch taken
MakeResolve(i) ==
    /\ ~container.crashed
    /\ container.makes < MaxMakes
    /\ container.g[i].pc \in {"idle", "done"}
    /\ \E ns \in Namespaces :
         IF resolveNamespace(container.aliases, ns) = StackOverflow THEN Crash
         ELSE ContainerStep([container EXCEPT !.g[i] = MakeLocked(container, ns),
                                              !.makes = @ + 1])

\* Container.Make: factory(c), called with no lock held
MakeFactory(i) ==
    /\ ~container.crashed
    /\ container.g[i].pc = "factory"
    /\ LET call == container.g[i]
           instance == [by |-> call.factory, n |-> container.serial + 1]
       IN  ContainerStep(
             IF call.kind = "singleton"
             THEN [container EXCEPT !.serial = @ + 1,
                                    !.invoked[call.resolved] = @ + 1,
                                    !.g[i].pc = "store",
                                    !.g[i].instance = instance]
             ELSE [container EXCEPT !.serial = @ + 1,
                                    !.g[i].pc = "done",
                                    !.g[i].instance = instance,
                                    !.g[i].result = Ok(instance)])

\* Container.Make for a singleton, from Lock to the return
MakeStore(i) ==
    /\ ~container.crashed
    /\ container.g[i].pc = "store"
    /\ ContainerStep(StoreOp(container, i))

\* Make, called by two goroutines
Make == \E i \in MakeCallers : MakeResolve(i) \/ MakeFactory(i) \/ MakeStore(i)

\* Make, called by one goroutine
MakeAlone == MakeResolve(1) \/ MakeFactory(1) \/ MakeStore(1)

InitContainer == RouterInit /\ ServerIdle /\ GroupIdle

NextSingleton == ContainerSingleton \/ ContainerAlias \/ Make

\* singletons and aliases registered while two goroutines call Make
SpecSingleton == InitContainer /\ [][NextSingleton]_vars

NextFake ==
    \/ ContainerBind \/ ContainerSingleton \/ ContainerAlias
    \/ ContainerFake \/ ContainerRestore \/ MakeAlone

\* registrations, Fake and Restore in any order, Make called between them
SpecFake == InitContainer /\ [][NextFake]_vars

NextAlias ==
    \/ ContainerSingleton \/ ContainerAlias \/ ContainerFake \/ ContainerRestore
    \/ ContainerHasBinding \/ MakeAlone

\* aliases of any shape, and the calls that resolve them
SpecAlias == InitContainer /\ [][NextAlias]_vars

(***************************************************************************)
(* Container properties                                                    *)
(***************************************************************************)
\* C22, as stated: the factory registered with Singleton for a namespace is called at
\* most once, and every Make that resolves to the singleton returns the one instance
\* kept for it, whatever the interleaving of the goroutines calling Make.
C22_AsStated ==
    /\ \A ns \in DOMAIN container.invoked : container.invoked[ns] <= 1
    /\ \A i \in MakeCallers :
         LET call == container.g[i] IN
         (call.pc = "done" /\ call.kind \in {"singleton", "instance"})
         => /\ call.resolved \in DOMAIN container.instances
            /\ call.result = Ok(container.instances[call.resolved])

\* the call of Make was resolved during the present Fake/Restore trip, in this phase,
\* for a name that stands for the faked namespace
DuringTrip(call, phase) ==
    /\ call.pc = "done"
    /\ call.at = [phase |-> phase, tid |-> container.trip.tid]
    /\ resolveNamespace(container.aliases, call.namespace)
         = resolveNamespace(container.aliases, container.trip.namespace)

\* C23: Fake(ns, f) on a namespace (or an alias of one) that has no fake, followed by
\* Restore(ns), is a round trip.  While the fake is installed a Make of the namespace
\* or of any alias of it returns a value of f; once Restore has returned, bindings,
\* singleton factories, aliases and fakes are what they were before the Fake, every
\* singleton instance cached then is cached still, and Make returns what the state
\* before the Fake gives: the cached instance of a singleton, else the one instance of
\* the singleton factory, else a value of the bound factory, else an error.
C23_FakeRestoreRoundTrip ==
    LET t == container.trip
        target == resolveNamespace(container.aliases, t.namespace)
        kept == /\ container.bindings = t.before.bindings
                /\ container.singletons = t.before.singletons
                /\ container.aliases = t.before.aliases
                /\ \A n \in DOMAIN t.before.instances :
                     /\ n \in DOMAIN container.instances
                     /\ container.instances[n] = t.before.instances[n]
    IN  /\ t.phase = "faked" =>
             /\ kept
             /\ container.fakes = MapPut(t.before.fakes, target, t.fake)
        /\ t.phase = "restored" =>
             /\ kept
             /\ container.fakes = t.before.fakes
        /\ \A i \in MakeCallers :
             LET call == container.g[i] IN
             /\ DuringTrip(call, "faked") =>
                  /\ call.result.ok
                  /\ call.result.value.by = t.fake
                  /\ call.result.value.n > 0
             /\ DuringTrip(call, "restored") =>
                  IF target \in DOMAIN t.before.instances
                  THEN call.result = Ok(t.before.instances[target])
                  ELSE IF target \in DOMAIN t.before.singletons
                  THEN /\ call.result.ok
                       /\ call.result.value.by = t.before.singletons[target]
                       /\ call.result = Ok(container.instances[target])
                  ELSE IF target \in DOMAIN t.before.bindings
                  THEN /\ call.result.ok
                       /\ call.result.value.by = t.before.bindings[target]
                  ELSE ~call.result.ok

\* C23 witness: with b an alias of the singleton a, whose instance is cached, Fake(b)
\* and Restore(b) were called, and a Make after the Restore returned the instance
\* cached before the Fake.
C23_Witness ==
    /\ container.trip.phase = "restored"
    /\ container.trip.namespace = "b"
    /\ container.aliases = [n \in {"b"} |-> "a"]
    /\ "a" \in DOMAIN container.trip.before.instances
    /\ DuringTrip(container.g[1], "restored")
    /\ container.g[1].result = Ok(container.trip.before.instances["a"])
    /\ container.g[1].result.value.by = "single"

\* C23, second case reached: while the fake installed through the alias b is in place,
\* Make(a) returns a value of the fake factory.
C23_WitnessFaked ==
    /\ container.trip.phase = "faked"
    /\ container.trip.namespace = "b"
    /\ container.aliases = [n \in {"b"} |-> "a"]
    /\ "a" \in DOMAIN container.singletons
    /\ DuringTrip(container.g[1], "faked")
    /\ container.g[1].namespace = "a"
    /\ container.g[1].result.value.by = "fake"

\* C30, as stated: no call of Make, HasBinding, Fake or Restore recurses without end,
\* whatever aliases were registered.
C30_AsStated == ~container.crashed

(***************************************************************************)
(* The event dispatcher                                                    *)
(*                                                                         *)
(* A listener is named by the number of the call that registered it, with  *)
(* what it returns.  Emit is cut where it takes and releases d.mu: the     *)
(* read-locked copy of the listeners, the write-locked delete of the once  *)
(* listeners, and the calls of the listeners made with no lock held.       *)
(***************************************************************************)
MaxListeners == 2     \* calls of On, Once and Trap
MaxEmits == 3         \* calls of Emit

Events == {"saved"}

Listener(id, kind, fails) == [id |-> id, kind |-> kind, fails |-> fails]

\* append(m[event], listener) on a map of slices
MapAppend(m, event, listener) ==
    MapPut(m, event, IF event \in DOMAIN m THEN Append(m[event], listener) ELSE <<listener>>)

\* how many listeners of the slice are called: all, or up to the first that fails
RunLength(all) ==
    IF \E k \in 1..Len(all) : all[k].fails
    THEN Min({k \in 1..Len(all) : all[k].fails})
    ELSE Len(all)

DispatcherStep(d) ==
    /\ dispatcher' = d
    /\ UNCHANGED <<httpVars, container, limiter, queue, hub>>

\* the registration of a listener in one of the maps of slices
Register(field, kind, fails) ==
    /\ dispatcher.registered < MaxListeners
    /\ \E event \in Events :
         LET listener == Listener(dispatcher.registered + 1, kind, fails) IN
         DispatcherStep([dispatcher EXCEPT
             ![field] = MapAppend(@, event, listener),
             !.registered = @ + 1,
             !.called = Append(@, 0),
             !.kinds = Append(@, kind)])

\* Dispatcher.On(event, listener)
On == \E fails \in BOOLEAN : Register("listeners", "on", fails)

\* Dispatcher.Once(event, listener)
Once == Register("onces", "once", FALSE)

\* Dispatcher.Trap(event, listener)
Trap ==
    /\ dispatcher.registered < MaxListeners
    /\ \E event \in Events :
         DispatcherStep([dispatcher EXCEPT
             !.traps = MapPut(@, event, Listener(dispatcher.registered + 1, "trap", FALSE)),
             !.registered = @ + 1,
             !.called = Append(@, 0),
             !.kinds = Append(@, "trap")])

\* Dispatcher.Emit(event, data) from RLock to RUnlock: the trap, or the copies of the
\* listeners and of the once listeners
EmitCopy(d, i, event) ==
    IF event \in DOMAIN d.traps
    THEN [d EXCEPT !.e[i] = [NoEmit EXCEPT !.pc = "trap", !.event = event], !.emits = @ + 1]
    ELSE [d EXCEPT
            !.e[i] = [NoEmit EXCEPT
                        !.pc = "clear",
                        !.event = event,
                        !.listeners = IF event \in DOMAIN d.listeners
                                      THEN d.listeners[event] ELSE <<>>,
                        !.onces = IF event \in DOMAIN d.onces THEN d.onces[event] ELSE <<>>],
            !.emits = @ + 1]

\* Emit: `if len(onces) > 0 { Lock; delete(d.onces, event); Unlock }`
EmitClear(d, i) ==
    IF Len(d.e[i].onces) > 0
    THEN [d EXCEPT !.onces = MapDelete(@, d.e[i].event), !.e[i].pc = "run"]
    ELSE [d EXCEPT !.e[i].pc = "run"]

\* Emit: the listeners called in order, then the once listeners, up to the first error
EmitRun(d, i) ==
    LET all == d.e[i].listeners \o d.e[i].onces
        n == RunLength(all)
        ran == {all[k].id : k \in 1..n}
    IN  [d EXCEPT
            !.called = [id \in DOMAIN @ |-> IF id \in ran THEN @[id] + 1 ELSE @[id]],
            !.e[i].pc = "done",
            !.e[i].result = IF n > 0 /\ all[n].fails THEN "error" ELSE "nil"]

\* Emit: `return trap(data)`, the trap read under the read lock
EmitTrap(d, i) ==
    LET trap == d.traps[d.e[i].event]
    IN  [d EXCEPT !.called[trap.id] = @ + 1, !.e[i].pc = "done"]

\* Dispatcher.Emit(event, data), one step of one of the goroutines
Emit ==
    \E i \in Emitters :
        \/ /\ dispatcher.e[i].pc \in {"idle", "done"}
           /\ dispatcher.emits < MaxEmits
           /\ \E event \in Events : DispatcherStep(EmitCopy(dispatcher, i, event))
        \/ /\ dispatcher.e[i].pc = "clear"
           /\ DispatcherStep(EmitClear(dispatcher, i))
        \/ /\ dispatcher.e[i].pc = "run"
           /\ DispatcherStep(EmitRun(dispatcher, i))
        \/ /\ dispatcher.e[i].pc = "trap"
           /\ DispatcherStep(EmitTrap(dispatcher, i))

NextDispatcher == On \/ Once \/ Trap \/ Emit

\* listeners registered while two goroutines emit the event
SpecDispatcher == InitContainer /\ [][NextDispatcher]_vars

\* C24, as stated: a listener registered with Once is called at most once in total,
\* however many times and from however many goroutines the event is emitted.
C24_AsStated ==
    \A id \in 1..Len(dispatcher.called) :
        dispatcher.kinds[id] = "once" => dispatcher.called[id] <= 1

(***************************************************************************)
(* The Redis rate limiter (Redis/cache.go)                                 *)
(*                                                                         *)
(* Redis holds the counter of one key and whether the key has an expiry.   *)
(* INCR and EXPIRE are single commands, each atomic, and each can fail     *)
(* with an error that Attempt returns.  The window has elapsed when Redis  *)
(* deletes the key, which it does only for a key that has an expiry.       *)
(***************************************************************************)
MaxAttemptCalls == 4    \* calls of Attempt

\* the maxAttempts argument of Attempt
LimiterMaxAttempts == 2

\* conn.Incr(ctx, k): the counter created at 1 or incremented
Incr(key) == [key EXCEPT !.exists = TRUE, !.count = IF key.exists THEN @ + 1 ELSE 1]

\* conn.Expire(ctx, k, window) on the key, if it is still there
Expire(key) == IF key.exists THEN [key EXCEPT !.expires = TRUE] ELSE key

LimiterStep(l) ==
    /\ limiter' = l
    /\ UNCHANGED <<httpVars, container, dispatcher, queue, hub>>

\* Attempt: `count, err := r.conn.Incr(ctx, k)`, and the return when no expiry is due
AttemptIncr(i) ==
    /\ limiter.a[i].pc \in {"idle", "done"}
    /\ limiter.attempts < MaxAttemptCalls
    /\ \E fails \in BOOLEAN :
         IF fails
         THEN LimiterStep([limiter EXCEPT
                !.attempts = @ + 1,
                !.a[i] = [NoAttempt EXCEPT !.pc = "done", !.err = TRUE]])
         ELSE LET key == Incr(limiter.key)
                  allowed == key.count <= LimiterMaxAttempts
              IN  IF key.count = 1
                  THEN LimiterStep([limiter EXCEPT
                         !.attempts = @ + 1,
                         !.key = key,
                         !.a[i] = [NoAttempt EXCEPT !.pc = "expire", !.count = key.count]])
                  ELSE LimiterStep([limiter EXCEPT
                         !.attempts = @ + 1,
                         !.key = key,
                         !.allowed = IF allowed THEN @ + 1 ELSE @,
                         !.a[i] = [NoAttempt EXCEPT !.pc = "done", !.count = key.count,
                                                    !.allowed = allowed]])

\* Attempt: `if count == 1 { r.conn.Expire(ctx, k, window) }` and the return
AttemptExpire(i) ==
    /\ limiter.a[i].pc = "expire"
    /\ \E fails \in BOOLEAN :
         IF fails
         THEN LimiterStep([limiter EXCEPT !.a[i].pc = "done", !.a[i].err = TRUE])
         ELSE LET allowed == limiter.a[i].count <= LimiterMaxAttempts
              IN  LimiterStep([limiter EXCEPT
                     !.key = Expire(@),
                     !.allowed = IF allowed THEN @ + 1 ELSE @,
                     !.a[i].pc = "done",
                     !.a[i].allowed = allowed])

\* RateLimiter.Attempt(ctx, key, maxAttempts, window), one step of one caller
Attempt == \E i \in AttemptCallers : AttemptIncr(i) \/ AttemptExpire(i)

\* the window elapses: Redis deletes the key that has an expiry
WindowElapses ==
    /\ limiter.key.exists
    /\ limiter.key.expires
    /\ LimiterStep([limiter EXCEPT !.key = NewLimiter.key, !.allowed = 0])

NextLimiter == Attempt \/ WindowElapses

\* two callers of Attempt on one key, Redis commands failing at will, windows elapsing
SpecLimiter == InitContainer /\ [][NextLimiter]_vars

\* C25, as stated: at most maxAttempts calls are allowed per window, and whenever no
\* call is between its steps a counter that exists has the window's expiry, also after
\* a Redis command failed.
C25_AsStated ==
    /\ limiter.allowed <= LimiterMaxAttempts
    /\ (\A i \in AttemptCallers : limiter.a[i].pc # "expire")
       => (limiter.key.exists => limiter.key.expires)

(***************************************************************************)
(* The WebSocket hub (Ws/server.go, Ws/client.go)                          *)
(*                                                                         *)
(* register and unregister are unbuffered channels: a client that sends    *)
(* waits until the loop of Hub.Start receives.  h.mu is a sync.RWMutex: a  *)
(* Lock waits while anyone holds it, the goroutine that holds it included. *)
(* A stretch of code that takes h.mu and releases it without calling out   *)
(* is one step; the unregister case of Start holds it across its calls of  *)
(* leaveRoom, so the mutex is state there.                                 *)
(***************************************************************************)
MaxJoins == 2         \* calls of Client.Join and Client.Leave
MaxBroadcasts == 1    \* calls of Hub.Broadcast

WsRooms == {"r", "s"}

\* h.rooms[room][client.id] = client, the room made when missing
RoomsJoin(rooms, room, id) ==
    MapPut(rooms, room, IF room \in DOMAIN rooms THEN rooms[room] \cup {id} ELSE {id})

\* delete(h.rooms[room], client.id), the room deleted when empty
RoomsLeave(rooms, room, id) ==
    IF room \in DOMAIN rooms
    THEN IF rooms[room] \ {id} = {} THEN MapDelete(rooms, room)
         ELSE MapPut(rooms, room, rooms[room] \ {id})
    ELSE rooms

HubStep(h) ==
    /\ hub' = h
    /\ UNCHANGED <<httpVars, container, dispatcher, limiter, queue>>

\* Hub.Handle: NewClient and `h.register <- client`, which waits for the loop
Handle ==
    \E id \in WsClients :
        /\ hub.c[id].pc = "new"
        /\ HubStep([hub EXCEPT !.c[id].pc = "register"])

\* Hub.Start, `case client := <-h.register`: the sender goes on to its readLoop
StartReceiveRegister ==
    /\ hub.loop.pc = "select"
    /\ \E id \in WsClients :
         /\ hub.c[id].pc = "register"
         /\ HubStep([hub EXCEPT !.loop = [pc |-> "register", client |-> id, todo |-> {}],
                                !.c[id].pc = "reading"])

\* Hub.Start, register case: Lock, h.clients[client.id] = client, Unlock
StartRegister ==
    /\ hub.loop.pc = "register"
    /\ hub.mu = "free"
    /\ HubStep([hub EXCEPT !.clients = @ \cup {hub.loop.client},
                           !.loop = NewHub.loop])

\* Hub.Start, `case client := <-h.unregister`: the sender's readLoop ends
StartReceiveUnregister ==
    /\ hub.loop.pc = "select"
    /\ \E id \in WsClients :
         /\ hub.c[id].pc = "unregister"
         /\ HubStep([hub EXCEPT !.loop = [pc |-> "unregister", client |-> id, todo |-> {}],
                                !.c[id].pc = "closed"])

\* Hub.Start, unregister case: Lock; a registered client is deleted, its sendCh closed,
\* and the loop over client.rooms begins, the lock held; else Unlock
StartUnregister ==
    /\ hub.loop.pc = "unregister"
    /\ hub.mu = "free"
    /\ LET id == hub.loop.client IN
       IF id \in hub.clients /\ hub.c[id].rooms # {}
       THEN HubStep([hub EXCEPT !.mu = "hub",
                                !.clients = @ \ {id},
                                !.c[id].sendClosed = TRUE,
                                !.loop.pc = "rooms",
                                !.loop.todo = hub.c[id].rooms])
       ELSE IF id \in hub.clients
       THEN HubStep([hub EXCEPT !.clients = @ \ {id},
                                !.c[id].sendClosed = TRUE,
                                !.loop = NewHub.loop])
       ELSE HubStep([hub EXCEPT !.loop = NewHub.loop])

\* Client.Join(room) up to the call of joinRoom: c.rooms[room] = true under c.mu
ClientJoin ==
    /\ hub.joins < MaxJoins
    /\ \E id \in WsClients, room \in WsRooms :
         /\ hub.c[id].pc = "reading"
         /\ HubStep([hub EXCEPT !.c[id].pc = "join", !.c[id].room = room,
                                !.c[id].rooms = @ \cup {room},
                                !.joins = @ + 1])

\* Hub.joinRoom(room, client), called by Client.Join: Lock, add, Unlock
joinRoom ==
    /\ hub.mu = "free"
    /\ \E id \in WsClients :
         /\ hub.c[id].pc = "join"
         /\ HubStep([hub EXCEPT !.rooms = RoomsJoin(@, hub.c[id].room, id),
                                !.c[id].pc = "reading"])

\* Client.Leave(room) up to the call of leaveRoom: delete(c.rooms, room) under c.mu
ClientLeave ==
    /\ hub.joins < MaxJoins
    /\ \E id \in WsClients, room \in WsRooms :
         /\ hub.c[id].pc = "reading"
         /\ HubStep([hub EXCEPT !.c[id].pc = "leave", !.c[id].room = room,
                                !.c[id].rooms = @ \ {room},
                                !.joins = @ + 1])

\* Hub.leaveRoom(room, client): Lock, delete, Unlock; called by Client.Leave, and by
\* the unregister case of Start for each room of the client
leaveRoom ==
    /\ hub.mu = "free"
    /\ \E who \in WsClients \cup {0} :
         IF who = 0
         THEN /\ hub.loop.pc = "rooms"
              /\ \E room \in hub.loop.todo :
                   HubStep([hub EXCEPT
                      !.rooms = RoomsLeave(@, room, hub.loop.client),
                      !.loop = IF hub.loop.todo = {room} THEN NewHub.loop
                               ELSE [@ EXCEPT !.todo = @ \ {room}]])
         ELSE /\ hub.c[who].pc = "leave"
              /\ HubStep([hub EXCEPT !.rooms = RoomsLeave(@, hub.c[who].room, who),
                                     !.c[who].pc = "reading"])

\* Client.readLoop: ReadMessage fails, and the deferred `c.hub.unregister <- c` waits
ReadFails ==
    \E id \in WsClients :
        /\ hub.c[id].pc = "reading"
        /\ HubStep([hub EXCEPT !.c[id].pc = "unregister"])

\* Hub.Broadcast(event, payload): RLock, the sends, RUnlock
Broadcast ==
    /\ hub.mu = "free"
    /\ hub.broadcasts < MaxBroadcasts
    /\ HubStep([hub EXCEPT !.broadcasts = @ + 1])

\* the steps of the goroutine that runs Hub.Start
Start ==
    \/ StartReceiveRegister \/ StartRegister
    \/ StartReceiveUnregister \/ StartUnregister

NextHub ==
    \/ Handle \/ Start \/ ClientJoin \/ joinRoom \/ ClientLeave \/ leaveRoom
    \/ ReadFails \/ Broadcast

\* the hub loop, the clients' read loops and a broadcaster
SpecHub == InitContainer /\ [][NextHub]_vars

\* the same, every goroutine taking a step it can take: the hub loop, the calls of
\* joinRoom and leaveRoom, and the broadcaster
SpecHubFair ==
    /\ SpecHub
    /\ WF_vars(Start) /\ WF_vars(joinRoom) /\ WF_vars(leaveRoom) /\ WF_vars(Broadcast)

\* C29, as stated: after the loop of Hub.Start has received the unregister of a
\* registered client that is in at least one room, the client leaves the client set and
\* every room, and the loop is back at its select to serve the next message.
C29_AsStated ==
    \A id \in WsClients :
        (/\ hub.loop.pc = "unregister"
         /\ hub.loop.client = id
         /\ id \in hub.clients
         /\ hub.c[id].rooms # {})
        ~> (/\ hub.loop.pc = "select"
            /\ id \notin hub.clients
            /\ \A room \in DOMAIN hub.rooms : id \notin hub.rooms[room])

(***************************************************************************)
(* The Redis queue (Queue/queue.go and the two worker files)               *)
(*                                                                         *)
(* Redis holds the queue's list, the delayed sorted set and the failed     *)
(* list.  A member of the sorted set is the marshalled payload, so two     *)
(* equal payloads are one member.  Every Redis command is one step and     *)
(* can fail with an error; a failed command changes nothing.  The source   *)
(* holds two bodies of pollDelayedJobs: one queues LPUSH and ZREM for all  *)
(* due jobs on a pipeline, one sends them one by one; the build holds one  *)
(* of them.  A pipeline is sent as one batch and is no transaction: when   *)
(* Exec fails, any prefix of its commands may have been applied.           *)
(***************************************************************************)
MaxJobs == 1          \* jobs given to Push and Later
MaxTime == 2          \* seconds that pass
MaxFailures == 1      \* Redis commands that fail

\* MaxAttempts of the payloads the worker reads: 0 for a payload marshalled without the
\* field, as Push and Later of Queue/queue.go write it, and the job's Tries() otherwise
Tries == {0, 2}

\* the delay given to Later, and the Backoff of a retry, in seconds
Delays == {0, 1}

JobPayload(job, attempts, max) == [job |-> job, attempts |-> attempts, max |-> max]

\* LPUSH key value
LPush(list, value) == <<value>> \o list

\* ZADD key score member: a member already there only gets the new score
ZAdd(set, score, member) ==
    {e \in set : e.member # member} \cup {[member |-> member, score |-> score]}

\* ZREM key member
ZRem(set, member) == {e \in set : e.member # member}

\* the set as a sequence, in an order that depends on the set alone
SeqOf(S) == CHOOSE q \in [1..Cardinality(S) -> S] : \A i, j \in 1..Cardinality(S) : q[i] = q[j] => i = j

\* ZRANGEBYSCORE key -inf max
ZRangeByScore(set, max) == SeqOf({e.member : e \in {d \in set : d.score <= max}})

QueueStep(q) ==
    /\ queue' = q
    /\ UNCHANGED <<httpVars, container, dispatcher, limiter, hub>>

\* a Redis command may fail now
MayFail == {FALSE} \cup (IF queue.failures < MaxFailures THEN {TRUE} ELSE {})

Failure(q, fails) == IF fails THEN [q EXCEPT !.failures = @ + 1] ELSE q

NewJob(q) == [q EXCEPT !.pushed = @ + 1, !.runs = Append(@, 0), !.succeeded = Append(@, FALSE)]

\* RedisQueue.Push(job): the payload, Attempts 0, pushed on the default list
Push ==
    /\ queue.pushed < MaxJobs
    /\ \E max \in Tries, fails \in MayFail :
         LET payload == JobPayload(queue.pushed + 1, 0, max) IN
         QueueStep(Failure([NewJob(queue) EXCEPT
                      !.list = IF fails THEN @ ELSE LPush(@, payload)], fails))

\* RedisQueue.Later(delay, job): the payload added to the delayed set, due at now + delay
Later ==
    /\ queue.pushed < MaxJobs
    /\ \E max \in Tries, delay \in Delays, fails \in MayFail :
         LET payload == JobPayload(queue.pushed + 1, 0, max) IN
         QueueStep(Failure([NewJob(queue) EXCEPT
                      !.delayed = IF fails THEN @ ELSE ZAdd(@, queue.now + delay, payload)],
                   fails))

\* a second passes
Tick ==
    /\ queue.now < MaxTime
    /\ QueueStep([queue EXCEPT !.now = @ + 1])

\* Process: BRPop returns the job at the tail of the list
ProcessPop(i) ==
    /\ queue.w[i].pc = "pop"
    /\ queue.list # <<>>
    /\ QueueStep([queue EXCEPT
          !.list = SubSeq(@, 1, Len(@) - 1),
          !.w[i] = [pc |-> "handle", payload |-> queue.list[Len(queue.list)]]])

\* Process, the handler having returned an error: Attempts++, then ZAdd on the delayed
\* set when Attempts < MaxAttempts, else LPush on the failed list; the error of the
\* ZAdd is dropped, the error of the LPush logged
Retry(q, i, backoff, fails) ==
    LET payload == [q.w[i].payload EXCEPT !.attempts = @ + 1]
    IN  IF payload.attempts < payload.max
        THEN [q EXCEPT !.delayed = IF fails THEN @ ELSE ZAdd(@, q.now + backoff, payload),
                       !.w[i] = NewQueue.w[i]]
        ELSE [q EXCEPT !.failed = IF fails THEN @ ELSE LPush(@, payload),
                       !.w[i] = NewQueue.w[i]]

\* Process: handler(payload.Data), and what follows its result
ProcessHandle(i) ==
    /\ queue.w[i].pc = "handle"
    /\ LET job == queue.w[i].payload.job
           ran == [queue EXCEPT !.runs[job] = @ + 1]
       IN  \/ QueueStep([ran EXCEPT !.succeeded[job] = TRUE, !.w[i] = NewQueue.w[i]])
           \/ \E backoff \in Delays \ {0}, fails \in MayFail :
                QueueStep(Failure(Retry(ran, i, backoff, fails), fails))

\* pollDelayedJobs, on a tick: ZRangeByScore for the jobs due now
PollFetch(i) ==
    /\ queue.p[i].pc = "tick"
    /\ ZRangeByScore(queue.delayed, queue.now) # <<>>
    /\ QueueStep([queue EXCEPT
          !.p[i] = [pc |-> "move", jobs |-> ZRangeByScore(queue.delayed, queue.now)]])

RECURSIVE Applied(_, _, _)
\* the first n commands of the pipeline LPush, ZRem, LPush, ZRem, ... applied
Applied(q, jobs, n) ==
    IF n = 0 \/ jobs = <<>> THEN q
    ELSE LET pushed == [q EXCEPT !.list = LPush(@, Head(jobs)),
                                 !.moves = Append(@, Head(jobs))]
         IN  IF n = 1 THEN pushed
             ELSE Applied([pushed EXCEPT !.delayed = ZRem(@, Head(jobs)),
                                         !.removed = @ \cup {Head(jobs)}],
                          Tail(jobs), n - 2)

\* pollDelayedJobs with a pipeline: pipe.Exec, whole, or failing after some commands
PollExec(i) ==
    /\ queue.poller = "pipeline"
    /\ queue.p[i].pc = "move"
    /\ LET jobs == queue.p[i].jobs
           done == [queue EXCEPT !.p[i] = NewQueue.p[i]]
       IN  \E fails \in MayFail :
             IF fails
             THEN \E n \in 0..(2 * Len(jobs)) :
                    QueueStep(Failure(Applied(done, jobs, n), TRUE))
             ELSE QueueStep(Applied(done, jobs, 2 * Len(jobs)))

\* pollDelayedJobs command by command: LPush of the next job; on an error the job is
\* skipped
PollPush(i) ==
    /\ queue.poller = "each"
    /\ queue.p[i].pc = "move"
    /\ LET jobs == queue.p[i].jobs IN
       \E fails \in MayFail :
          IF fails
          THEN QueueStep(Failure([queue EXCEPT
                  !.p[i] = IF Len(jobs) = 1 THEN NewQueue.p[i]
                           ELSE [pc |-> "move", jobs |-> Tail(jobs)]], TRUE))
          ELSE QueueStep([queue EXCEPT
                  !.list = LPush(@, Head(jobs)),
                  !.moves = Append(@, Head(jobs)),
                  !.p[i].pc = "zrem"])

\* pollDelayedJobs command by command: ZRem of the job pushed, its error dropped
PollRem(i) ==
    /\ queue.poller = "each"
    /\ queue.p[i].pc = "zrem"
    /\ LET jobs == queue.p[i].jobs
           next == IF Len(jobs) = 1 THEN NewQueue.p[i] ELSE [pc |-> "move", jobs |-> Tail(jobs)]
       IN  \E fails \in MayFail :
             QueueStep(Failure([queue EXCEPT
                 !.delayed = IF fails THEN @ ELSE ZRem(@, Head(jobs)),
                 !.removed = IF fails THEN @ ELSE @ \cup {Head(jobs)},
                 !.p[i] = next], fails))

\* RedisQueue.Process(queueName): a step of a worker loop
Process == \E i \in Workers : ProcessPop(i) \/ ProcessHandle(i)

\* RedisQueue.pollDelayedJobs: a step of a poller
pollDelayedJobs == \E i \in Workers : PollFetch(i) \/ PollExec(i) \/ PollPush(i) \/ PollRem(i)

\* an empty Redis, and a build with either body of pollDelayedJobs
InitQueue ==
    /\ RouterInit /\ ServerIdle
    /\ group = NoGroup /\ response = NewHttpContext /\ conc = ConcIdle
    /\ container = NewContainer /\ dispatcher = NewDispatcher
    /\ limiter = NewLimiter /\ hub = NewHub
    /\ queue \in {[NewQueue EXCEPT !.poller = v] : v \in {"pipeline", "each"}}

NextQueue == Push \/ Later \/ Tick \/ Process \/ pollDelayedJobs

\* jobs pushed and delayed, two Process calls on the queue, Redis commands failing
SpecQueue == InitQueue /\ [][NextQueue]_vars

(***************************************************************************)
(* Queue properties                                                        *)
(***************************************************************************)
Jobs == 1..queue.pushed

\* the payloads of the job that Redis or a worker holds
OnList(job) == \E k \in 1..Len(queue.list) : queue.list[k].job = job
OnDelayed(job) == \E e \in queue.delayed : e.member.job = job
OnFailed(job) == \E k \in 1..Len(queue.failed) : queue.failed[k].job = job
InHand(job) == \E i \in Workers : queue.w[i].pc = "handle" /\ queue.w[i].payload.job = job

\* MaxAttempts of the job, as pushed
MaxOf(job) ==
    LET held == {queue.list[k] : k \in 1..Len(queue.list)}
                \cup {e.member : e \in queue.delayed}
                \cup {queue.failed[k] : k \in 1..Len(queue.failed)}
                \cup {queue.w[i].payload : i \in Workers}
    IN  IF \E x \in held : x.job = job THEN (CHOOSE x \in held : x.job = job).max ELSE 0

\* how often the pollers pushed the member on the list
Moved(member) == Cardinality({k \in 1..Len(queue.moves) : queue.moves[k] = member})

\* C27, as stated: a job whose handler failed is, once the worker has dealt with the
\* failure, on the delayed set or on the failed list (or back on the list, or in a
\* worker's hands again), no payload of it on both the delayed set and the failed list;
\* and its handler runs at most max(1, MaxAttempts) times.
C27_AsStated ==
    \A job \in Jobs :
        /\ (queue.runs[job] >= 1 /\ ~queue.succeeded[job])
           => (OnDelayed(job) \/ OnFailed(job) \/ OnList(job) \/ InHand(job))
        /\ ~\E e \in queue.delayed, k \in 1..Len(queue.failed) :
               e.member.job = job /\ queue.failed[k] = e.member
        /\ (OnList(job) \/ OnDelayed(job) \/ OnFailed(job) \/ InHand(job))
           => queue.runs[job] <= Max({1, MaxOf(job)})

\* C28, as stated: a member of the delayed set that is due is pushed on the list once,
\* and not more, by the pollers, and is removed from the set only when pushed.
C28_AsStated ==
    /\ \A k \in 1..Len(queue.moves) : Moved(queue.moves[k]) = 1
    /\ \A member \in queue.removed : Moved(member) = 1

====
